---- MODULE Spec2Model ----
(***************************************************************************)
(* Stellar Antivirus desktop core (src-tauri/src/lib.rs): the threat       *)
(* lookup client (call_threat_api_batch), the shared scan routine          *)
(* (run_hash_lookup_scan) and the realtime watcher's consumer loop         *)
(* (start_realtime_watcher), as state machines.                            *)
(*                                                                         *)
(* Strings whose case the code changes (verdicts, fingerprints, file       *)
(* names) are sequences of one-character strings, so that to_lowercase is  *)
(* computed; strings the code only copies and compares (display names,     *)
(* event names) are plain strings.                                         *)
(***************************************************************************)
EXTENDS Integers, Sequences, FiniteSets, TLC

VARIABLES
    \* ---- environment ----
    fs,             \* scanned path -> content id, or NoFile when it cannot be read
    db,             \* the remote threat database: content id -> entry
    \* ---- call_threat_api_batch (one activation) ----
    files,          \* the argument
    chunk_index,    \* enumerate() index of the chunk being sent (0-based)
    attempt,        \* the retry loop's variable
    all_results,
    last_err,
    batch_pc,       \* "idle" | "sending" | "returned"
    batch_ret,      \* the Result returned
    http_log,       \* every client.post(..).send() made: request and outcome
    client_builds,  \* number of build_http_client() calls
    \* ---- collect_paths (one activation) ----
    tree,           \* what WalkDir finds below each root, in walk order
    args,           \* max_depth, max_files, include_documents, include_desktop, max_file_bytes
    walk,           \* the root being walked, the entries taken from its iterator, and where control is
    skipped_too_big,
    \* ---- run_hash_lookup_scan (one activation) ----
    paths_to_scan,
    scan_pc,        \* "start" | "hashing" | "lookup" | "returned"
    scan_i,         \* the hashing loop's index i
    index_to_path,
    scan_ret,
    \* ---- what the frontend and the user see ----
    emitted,        \* app.emit(name, payload), in order
    notified,       \* notification bodies shown, in order
    \* ---- start_realtime_watcher and set_realtime_enabled ----
    REALTIME_ENABLED,
    config,         \* the persisted RuntimeConfig
    rx,             \* the channel from the notify callback to the consumer loop
    produced,       \* number of events the callback has sent
    clock,          \* Instant::now(), in seconds
    recent_hits,
    rt_pc,          \* "recv" | "lookup"
    rt_event,       \* the event of the current loop iteration
    detected_name,
    rt_hashed,      \* the paths the loop has hashed, in order
    attempts,       \* history: the events that passed the debounce check, with the time read
    \* ---- quarantine_files, restore_from_quarantine, delete_quarantine_files ----
    q_op,           \* the command running or last run: "none" | "quarantine" | "restore" | "delete"
    q_pc,           \* "idle" | "loop" | "returned"
    q_items,        \* the command's argument
    q_i,            \* number of items the loop is done with
    q_ret,          \* the Result returned
    q_prev,         \* history: the command before this one and what it returned
    q_calls,        \* number of commands invoked
    mkdir_calls,    \* history: the directories fs::create_dir_all was called on
    fs_at_call,     \* history: fs when the command was invoked
    fs0             \* history: fs before the first command

batch_vars == <<files, chunk_index, attempt, all_results, last_err, batch_pc,
                batch_ret, http_log, client_builds>>
cp_vars == <<tree, args, walk, skipped_too_big>>
scan_vars == <<paths_to_scan, scan_pc, scan_i, index_to_path, scan_ret, cp_vars>>
env_vars == <<fs, db>>
out_vars == <<emitted, notified>>
rt_vars == <<REALTIME_ENABLED, config, rx, produced, clock, recent_hits, rt_pc,
             rt_event, detected_name, rt_hashed, attempts>>
q_vars == <<q_op, q_pc, q_items, q_i, q_ret, q_prev, q_calls, mkdir_calls,
           fs_at_call, fs0>>
vars == <<env_vars, batch_vars, scan_vars, out_vars, rt_vars, q_vars>>

\* ------------------------------------------------------------------------
\* Bounds of the model
\* ------------------------------------------------------------------------

\* Longest path list handed to a scan.
MaxPaths == 2
\* Number of filesystem events the notify callback delivers.
MaxEvents == 2
\* Last second of the clock.
MaxTime == 2
\* Number of events in a burst of changes to the watched files.
MaxBurst == 3

\* ------------------------------------------------------------------------
\* Program constants
\* ------------------------------------------------------------------------

HTTP_RETRIES == 1
CHUNK_SIZE == 1000

\* ------------------------------------------------------------------------
\* Option and Result
\* ------------------------------------------------------------------------

None == [some |-> FALSE]
Some(x) == [some |-> TRUE, val |-> x]
Ok(x) == [ok |-> TRUE, val |-> x]
Err(e) == [ok |-> FALSE, err |-> e]

\* ------------------------------------------------------------------------
\* Strings as character sequences
\* ------------------------------------------------------------------------

UpperChars == <<"A","B","C","D","E","F","G","H","I","J","K","L","M",
                "N","O","P","Q","R","S","T","U","V","W","X","Y","Z">>
LowerChars == <<"a","b","c","d","e","f","g","h","i","j","k","l","m",
                "n","o","p","q","r","s","t","u","v","w","x","y","z">>

OtherChars == <<"0","1","2","3","4","5","6","7","8","9","-","_",".">>

\* Every character of the model's strings.
CharSet ==
    {UpperChars[i] : i \in 1..26} \cup {LowerChars[i] : i \in 1..26}
    \cup {OtherChars[i] : i \in 1..Len(OtherChars)}

LowerOf ==
    [c \in CharSet |->
        IF \E i \in 1..26 : UpperChars[i] = c
        THEN LowerChars[CHOOSE i \in 1..26 : UpperChars[i] = c]
        ELSE c]

UpperOf ==
    [c \in CharSet |->
        IF \E i \in 1..26 : LowerChars[i] = c
        THEN UpperChars[CHOOSE i \in 1..26 : LowerChars[i] = c]
        ELSE c]

lower_char(c) == LowerOf[c]

upper_char(c) == UpperOf[c]

\* str::to_lowercase, on the ASCII strings of the model.
to_lowercase(s) == [i \in 1..Len(s) |-> lower_char(s[i])]

\* What a remote that prints its digests in capitals does to a fingerprint.
to_uppercase(s) == [i \in 1..Len(s) |-> upper_char(s[i])]

HexChars == <<"0","1","2","3","4","5","6","7","8","9","a","b","c","d","e","f">>

\* hex::encode: two lowercase hex digits per byte.
hex_encode(bytes) ==
    [k \in 1..(2 * Len(bytes)) |->
        IF k % 2 = 1
        THEN HexChars[(bytes[(k + 1) \div 2] \div 16) + 1]
        ELSE HexChars[(bytes[k \div 2] % 16) + 1]]

\* SHA-256 of a file's content, abstracted to an injective map from content
\* ids (below 24576) to two-byte digests.
Sha256Digest(content) == <<160 + (content \div 256), content % 256>>

\* ------------------------------------------------------------------------
\* The verdict strings and display names of the model
\* ------------------------------------------------------------------------

V_clean == <<"c","l","e","a","n">>
V_Clean == <<"C","l","e","a","n">>
V_CLEAN == <<"C","L","E","A","N">>
V_unknown == <<"u","n","k","n","o","w","n">>
V_UNKNOWN == <<"U","N","K","N","O","W","N">>
V_malicious == <<"m","a","l","i","c","i","o","u","s">>
V_Suspicious == <<"S","u","s","p","i","c","i","o","u","s">>

\* ------------------------------------------------------------------------
\* The remote service
\* ------------------------------------------------------------------------

\* The file contents of the model, by id.
Contents == {0, 1}
NoFile == -1

\* ThreatApiSignature, reduced to the one field the program reads (name).
Signature(n) == [name |-> n]

\* What the database can hold for a fingerprint: a verdict and an optional
\* signature.
DbEntries ==
    { [verdict |-> V_clean,      signature |-> None],
      [verdict |-> V_Clean,      signature |-> None],
      [verdict |-> V_CLEAN,      signature |-> Some(Signature("Adware.Old"))],
      [verdict |-> V_unknown,    signature |-> None],
      [verdict |-> V_UNKNOWN,    signature |-> None],
      [verdict |-> V_malicious,  signature |-> Some(Signature("Trojan.Test"))],
      [verdict |-> V_Suspicious, signature |-> None] }

\* The answer for a fingerprint the database does not hold.
DefaultEntry == [verdict |-> V_unknown, signature |-> None]

\* sha256_of_file on a readable file: hex of the digest of its content.
HashOf(content) == hex_encode(Sha256Digest(content))

\* The fingerprints of the contents the database knows.
ContentHashes == [c \in Contents |-> HashOf(c)]

\* The remote looks a fingerprint up whatever its case.
DbEntry(sha) ==
    LET key == to_lowercase(sha) IN
    IF \E c \in Contents : ContentHashes[c] = key
    THEN db[CHOOSE c \in Contents : ContentHashes[c] = key]
    ELSE DefaultEntry

\* ThreatApiResult (recommended_action is never read).
ResultFor(sha) ==
    LET e == DbEntry(sha) IN
    [sha256 |-> sha, verdict |-> e.verdict, signature |-> e.signature]

\* A result about a fingerprint nobody asked about.
ForeignHash == <<"f","f","f","f">>
ForeignResult ==
    [sha256 |-> ForeignHash, verdict |-> V_malicious,
     signature |-> Some(Signature("Worm.Foreign"))]

\* The result lists a parseable 2xx body can carry for a request.
ResponseShapes == {"echo", "upper", "empty", "foreign"}

ParsedResults(chunk, shape) ==
    CASE shape = "echo" ->
            [i \in 1..Len(chunk) |-> ResultFor(chunk[i].sha256)]
      [] shape = "upper" ->
            [i \in 1..Len(chunk) |-> ResultFor(to_uppercase(chunk[i].sha256))]
      [] shape = "empty" -> <<>>
      [] shape = "foreign" ->
            <<ForeignResult>> \o
            [i \in 1..Len(chunk) |-> ResultFor(chunk[i].sha256)]

StatusCodes == {200, 304, 404, 503}

\* reqwest::StatusCode::is_success / is_server_error
is_success(status) == status >= 200 /\ status < 300
is_server_error(status) == status >= 500 /\ status < 600

\* Every way one client.post(&url).json(&req).send() can end, with what the
\* body then turns out to be: a transport error (connection, timeout), a
\* non-2xx status, or a 2xx status whose body cannot be read, cannot be
\* parsed, or parses to a result list.
HttpOutcomes(chunk) ==
    { [kind |-> "transport"] }
    \cup { [kind |-> "status", code |-> c, body |-> "none"] :
             c \in {s \in StatusCodes : ~is_success(s)} }
    \cup { [kind |-> "status", code |-> c, body |-> b] :
             c \in {s \in StatusCodes : is_success(s)},
             b \in {"unreadable", "garbage"} }
    \cup { [kind |-> "status", code |-> c, body |-> "json",
            results |-> ParsedResults(chunk, sh)] :
             c \in {s \in StatusCodes : is_success(s)}, sh \in ResponseShapes }

\* ------------------------------------------------------------------------
\* call_threat_api_batch
\* ------------------------------------------------------------------------

\* files.chunks(CHUNK_SIZE): consecutive slices of CHUNK_SIZE items, the last
\* one shorter.
NumChunks(fl) == (Len(fl) + CHUNK_SIZE - 1) \div CHUNK_SIZE

ChunkAt_short(fl, k) ==
    LET lo == k * CHUNK_SIZE + 1
        hi == IF (k + 1) * CHUNK_SIZE < Len(fl) THEN (k + 1) * CHUNK_SIZE - 1 ELSE Len(fl)
    IN SubSeq(fl, lo, hi)

ChunkAt(fl, k) ==
    LET lo == k * CHUNK_SIZE + 1
        hi == IF (k + 1) * CHUNK_SIZE < Len(fl) THEN (k + 1) * CHUNK_SIZE ELSE Len(fl)
    IN SubSeq(fl, lo, hi)

\* The error strings, by what they say.
ErrBuild == [kind |-> "build"]
ErrStatus(code) == [kind |-> "status", code |-> code]
ErrTransport == [kind |-> "transport"]
ErrBody == [kind |-> "body"]
ErrParse == [kind |-> "parse"]

\* if attempt < HTTP_RETRIES && status.is_server_error() { continue }
RetryOnStatus_any(att, status) == att < HTTP_RETRIES
RetryOnStatus(att, status) == att < HTTP_RETRIES /\ is_server_error(status)

\* Err(e) => if attempt < HTTP_RETRIES { continue }
RetryOnTransport(att) == att < HTTP_RETRIES

BatchReturn(r) ==
    /\ batch_pc' = "returned"
    /\ batch_ret' = r

\* if files.is_empty() { return Ok(vec![]); }
IsEmptyInput_never(fl) == FALSE
IsEmptyInput(fl) == fl = <<>>

\* return Err(msg) / return Err(e): the error alone, no results with it.
FailWith_partial(e) == Ok(all_results)
FailWith(e) == Err(e)

\* last_err = None after a chunk's results were appended.
ErrAfterSuccess_stale(prev) == prev
ErrAfterSuccess(prev) == None

\* Entry of call_threat_api_batch(fl): the empty-input return, then
\* build_http_client()?, then the first chunk's first attempt is due.
BatchEnter(fl, build_ok) ==
    /\ batch_pc = "idle"
    /\ files' = fl
    /\ chunk_index' = 0
    /\ attempt' = 0
    /\ all_results' = <<>>
    /\ last_err' = None
    /\ http_log' = <<>>
    /\ IF IsEmptyInput(fl)
       THEN /\ BatchReturn(Ok(<<>>))
            /\ client_builds' = client_builds
       ELSE /\ client_builds' = client_builds + 1
            /\ IF build_ok
               THEN /\ batch_pc' = "sending"
                    /\ batch_ret' = batch_ret
               ELSE BatchReturn(FailWith(ErrBuild))

\* After the attempt loop of a chunk: if let Some(e) = last_err { return Err(e) },
\* else the next chunk (with a fresh last_err), or Ok(all_results) after the
\* last one.
AfterLoop(le, results) ==
    IF le.some
    THEN /\ BatchReturn(FailWith(le.val))
         /\ last_err' = le
         /\ UNCHANGED <<chunk_index, attempt>>
    ELSE /\ last_err' = None
         /\ IF chunk_index + 1 < NumChunks(files)
            THEN /\ chunk_index' = chunk_index + 1
                 /\ attempt' = 0
                 /\ batch_pc' = "sending"
                 /\ batch_ret' = batch_ret
            ELSE /\ BatchReturn(Ok(results))
                 /\ UNCHANGED <<chunk_index, attempt>>

\* One iteration of the attempt loop: send the chunk, then the match on the
\* response.
HttpAttempt(o) ==
    /\ batch_pc = "sending"
    /\ o \in HttpOutcomes(ChunkAt(files, chunk_index))
    /\ http_log' = Append(http_log,
                     [chunk_index |-> chunk_index, attempt |-> attempt,
                      files |-> ChunkAt(files, chunk_index), outcome |-> o])
    /\ UNCHANGED <<files, client_builds>>
    /\ IF o.kind = "status"
       THEN IF ~is_success(o.code)
            THEN /\ last_err' = Some(ErrStatus(o.code))
                 /\ all_results' = all_results
                 /\ IF RetryOnStatus(attempt, o.code)
                    THEN /\ attempt' = attempt + 1
                         /\ UNCHANGED <<chunk_index, batch_pc, batch_ret>>
                    ELSE /\ BatchReturn(FailWith(ErrStatus(o.code)))
                         /\ UNCHANGED <<chunk_index, attempt>>
            ELSE IF o.body = "unreadable"
            THEN /\ BatchReturn(FailWith(ErrBody))
                 /\ UNCHANGED <<chunk_index, attempt, all_results, last_err>>
            ELSE IF o.body = "garbage"
            THEN /\ BatchReturn(FailWith(ErrParse))
                 /\ UNCHANGED <<chunk_index, attempt, all_results, last_err>>
            ELSE \* all_results.extend(parsed.results); last_err = None; break
                 /\ all_results' = all_results \o o.results
                 /\ AfterLoop(ErrAfterSuccess(last_err), all_results \o o.results)
       ELSE /\ all_results' = all_results
            /\ IF RetryOnTransport(attempt)
               THEN /\ last_err' = Some(ErrTransport)
                    /\ attempt' = attempt + 1
                    /\ UNCHANGED <<chunk_index, batch_pc, batch_ret>>
               ELSE \* the last attempt: the loop is over with last_err set
                    AfterLoop(Some(ErrTransport), all_results)

\* ------------------------------------------------------------------------
\* Quiescent components
\* ------------------------------------------------------------------------

BatchIdle ==
    /\ chunk_index = 0
    /\ attempt = 0
    /\ all_results = <<>>
    /\ last_err = None
    /\ batch_pc = "idle"
    /\ batch_ret = Ok(<<>>)
    /\ http_log = <<>>
    /\ client_builds = 0

WalkOff ==
    /\ tree = <<>>
    /\ args = <<>>
    /\ walk = [root |-> 0, k |-> 0, pc |-> "off"]
    /\ skipped_too_big = 0

ScanOff ==
    /\ WalkOff
    /\ paths_to_scan = <<>>
    /\ scan_pc = "off"
    /\ scan_i = 0
    /\ index_to_path = <<>>
    /\ scan_ret = Ok(<<>>)

NothingOut ==
    /\ emitted = <<>>
    /\ notified = <<>>

\* No quarantine command has been invoked.
QuarantineOff ==
    /\ q_op = "none"
    /\ q_pc = "idle"
    /\ q_items = <<>>
    /\ q_i = 0
    /\ q_ret = Ok(<<>>)
    /\ q_prev = [op |-> "none", ret |-> Ok(<<>>)]
    /\ q_calls = 0
    /\ mkdir_calls = {}
    /\ fs_at_call = <<>>
    /\ fs0 = <<>>

\* No event: the "none yet" value of rt_event.
NoEvent == [kind |-> "none", paths |-> <<>>]

\* The watcher thread as it is right after its setup, with the flag as loaded.
WatcherFresh(enabled) ==
    /\ REALTIME_ENABLED = enabled
    /\ config = [realtime_enabled |-> enabled, shown_background_hint |-> FALSE]
    /\ rx = <<>>
    /\ produced = 0
    /\ clock = 0
    /\ recent_hits = <<>>
    /\ rt_pc = "recv"
    /\ rt_event = NoEvent
    /\ detected_name = None
    /\ rt_hashed = <<>>
    /\ attempts = <<>>

\* ------------------------------------------------------------------------
\* call_threat_api_batch on its own
\* ------------------------------------------------------------------------

\* ThreatApiFile as call_threat_api_single builds it from a hash.
ApiFileOfHash(hash) == [sha256 |-> hash, size |-> None, extension |-> None]

\* The input sizes tried: none, one, and the sizes around one, two and three
\* chunks.
BatchSizes ==
    {0, 1, CHUNK_SIZE - 1, CHUNK_SIZE, CHUNK_SIZE + 1,
     2 * CHUNK_SIZE, 2 * CHUNK_SIZE + (CHUNK_SIZE \div 2)}

\* n files with pairwise distinct fingerprints.
BatchInput(n) == [k \in 1..n |-> ApiFileOfHash(HashOf(k - 1))]

BatchDb ==
    [c \in Contents |->
        IF c = 0
        THEN [verdict |-> V_malicious, signature |-> Some(Signature("Trojan.Test"))]
        ELSE [verdict |-> V_Clean, signature |-> None]]

InitBatch ==
    /\ QuarantineOff
    /\ fs = <<>>
    /\ db = BatchDb
    /\ files \in {BatchInput(n) : n \in BatchSizes}
    /\ BatchIdle
    /\ ScanOff
    /\ NothingOut
    /\ WatcherFresh(TRUE)

\* The call itself, with whether Client::builder().build() succeeds.
DirectCall ==
    /\ scan_pc = "off"
    /\ \E build_ok \in BOOLEAN : BatchEnter(files, build_ok)
    /\ UNCHANGED <<env_vars, q_vars, scan_vars, out_vars, rt_vars>>

DirectAttempt ==
    /\ scan_pc = "off"
    /\ \E o \in HttpOutcomes(ChunkAt(files, chunk_index)) : HttpAttempt(o)
    /\ UNCHANGED <<env_vars, q_vars, scan_vars, out_vars, rt_vars>>

NextBatch == DirectCall \/ DirectAttempt

SpecBatch == InitBatch /\ [][NextBatch]_vars

\* ------------------------------------------------------------------------
\* run_hash_lookup_scan
\* ------------------------------------------------------------------------

\* sha256_of_file: None when the file cannot be opened or read.
sha256_of_file_of_empty(path) ==
    Some(HashOf(IF fs[path] = NoFile THEN 0 ELSE fs[path]))

sha256_of_file(path) ==
    IF fs[path] = NoFile THEN None ELSE Some(HashOf(fs[path]))

\* fs::metadata(path).ok().map(|m| m.len()): the content's length, here its id.
SizeOfFile(path) ==
    IF fs[path] = NoFile THEN None ELSE Some(fs[path])

\* path.extension(), lowercased: odd paths are "X.EXE", even ones have none.
ExtensionOf(path) ==
    IF path % 2 = 1 THEN Some(to_lowercase(<<"E","X","E">>)) ELSE None

Emit(name, payload) == emitted' = Append(emitted, [name |-> name, payload |-> payload])

ScanProgressPayload_zero_based(file, current, total) ==
    [file |-> file, current |-> current - 1, total |-> total]

ScanProgressPayload(file, current, total) ==
    [file |-> file, current |-> current, total |-> total]

ScanFinishedPayload(threats) == [threats |-> threats]

\* The payload of the terminal event when the lookup failed.
FailurePayload == ScanFinishedPayload(<<>>)

\* files_for_api: one ThreatApiFile per entry of index_to_path, in order.
FilesForApi(itp) ==
    [k \in 1..Len(itp) |->
        [sha256 |-> itp[k].hash, size |-> SizeOfFile(itp[k].path),
         extension |-> ExtensionOf(itp[k].path)]]

\* hash_to_path after the insert loop: for each lowercased hash, the path of
\* the last entry that carries it (HashMap::insert overwrites).
HashToPath(itp) ==
    LET keys == {to_lowercase(itp[k].hash) : k \in 1..Len(itp)}
        last(h) == CHOOSE k \in 1..Len(itp) :
                      /\ to_lowercase(itp[k].hash) = h
                      /\ \A j \in 1..Len(itp) :
                            to_lowercase(itp[j].hash) = h => j <= k
    IN [h \in keys |-> itp[last(h)].path]

\* let verdict = r.verdict.to_lowercase();
\* if verdict == "clean" || verdict == "unknown" { continue; }
is_threat_verdict_case_sensitive(v) == ~(v = V_clean \/ v = V_unknown)
is_threat_verdict(v) ==
    LET verdict == to_lowercase(v) IN
    ~(verdict = V_clean \/ verdict = V_unknown)

\* r.signature.as_ref().map(|s| s.name.clone())
\*            .unwrap_or_else(|| "Unknown threat".to_string())
display_name_no_fallback(r) ==
    IF r.signature.some THEN r.signature.val.name ELSE ""
display_name(r) ==
    IF r.signature.some THEN r.signature.val.name ELSE "Unknown threat"

\* threats_vec after the loop over api_results.
ThreatsVec(api_results, h2p) ==
    LET reported(r) == /\ is_threat_verdict(r.verdict)
                       /\ to_lowercase(r.sha256) \in DOMAIN h2p
        kept == SelectSeq(api_results, reported)
    IN [k \in 1..Len(kept) |->
            <<display_name(kept[k]), h2p[to_lowercase(kept[k].sha256)]>>]

\* if total == 0 { emit scan_finished; return Ok(()) }, else into the loop.
ScanStart ==
    /\ scan_pc = "start"
    /\ IF Len(paths_to_scan) = 0
       THEN /\ Emit("scan_finished", ScanFinishedPayload(<<>>))
            /\ scan_pc' = "returned"
            /\ scan_ret' = Ok(<<>>)
       ELSE /\ scan_pc' = "hashing"
            /\ UNCHANGED <<emitted, scan_ret>>
    /\ scan_i' = 0
    /\ index_to_path' = <<>>
    /\ UNCHANGED <<env_vars, q_vars, batch_vars, paths_to_scan, cp_vars, notified, rt_vars>>

\* One iteration of the hashing loop: the progress event, then the hash.
ScanHashStep ==
    /\ scan_pc = "hashing"
    /\ scan_i < Len(paths_to_scan)
    /\ LET path == paths_to_scan[scan_i + 1]
           h == sha256_of_file(path)
       IN /\ Emit("scan_progress",
                  ScanProgressPayload(path, scan_i + 1, Len(paths_to_scan)))
          /\ index_to_path' =
                IF h.some
                THEN Append(index_to_path, [i |-> scan_i, path |-> path, hash |-> h.val])
                ELSE index_to_path
    /\ scan_i' = scan_i + 1
    /\ UNCHANGED <<env_vars, q_vars, batch_vars, paths_to_scan, cp_vars, scan_pc, scan_ret, notified, rt_vars>>

\* After the loop: files_for_api is built and call_threat_api_batch entered.
ScanCallLookup ==
    /\ scan_pc = "hashing"
    /\ scan_i = Len(paths_to_scan)
    /\ \E build_ok \in BOOLEAN : BatchEnter(FilesForApi(index_to_path), build_ok)
    /\ scan_pc' = "lookup"
    /\ UNCHANGED <<env_vars, q_vars, paths_to_scan, cp_vars, scan_i, index_to_path, scan_ret, out_vars, rt_vars>>

\* An HTTP attempt of the scan's lookup.
ScanAttempt ==
    /\ scan_pc = "lookup"
    /\ \E o \in HttpOutcomes(ChunkAt(files, chunk_index)) : HttpAttempt(o)
    /\ UNCHANGED <<env_vars, q_vars, scan_vars, out_vars, rt_vars>>

\* Err(e) => { ...; let _ = app.emit("scan_finished", ..threats: vec![]..); ..}
EmitOnLookupFailure_skipped == emitted' = emitted
EmitOnLookupFailure == Emit("scan_finished", FailurePayload)

\* Err(e) => { ...; return Err(e); }
ReturnOnLookupFailure_swallowed(e) == Ok(<<>>)
ReturnOnLookupFailure(e) == Err(e)

\* The match on the lookup's result and everything after it.
ScanFinish ==
    /\ scan_pc = "lookup"
    /\ batch_pc = "returned"
    /\ IF ~batch_ret.ok
       THEN /\ EmitOnLookupFailure
            /\ notified' = Append(notified, [kind |-> "failed"])
            /\ scan_ret' = ReturnOnLookupFailure(batch_ret.err)
       ELSE LET threats_vec == ThreatsVec(batch_ret.val, HashToPath(index_to_path))
            IN /\ Emit("scan_finished", ScanFinishedPayload(threats_vec))
               /\ notified' = Append(notified,
                     IF threats_vec # <<>>
                     THEN [kind |-> "threats", count |-> Len(threats_vec)]
                     ELSE [kind |-> "no_threats"])
               /\ scan_ret' = Ok(<<>>)
    /\ scan_pc' = "returned"
    /\ UNCHANGED <<env_vars, q_vars, batch_vars, paths_to_scan, cp_vars, scan_i, index_to_path, rt_vars>>

InitScan ==
    /\ QuarantineOff
    /\ \E n \in 0..MaxPaths :
          /\ paths_to_scan = [k \in 1..n |-> k]
          /\ fs \in [1..n -> Contents \cup {NoFile}]
    /\ db \in [Contents -> DbEntries]
    /\ files = <<>>
    /\ BatchIdle
    /\ WalkOff
    /\ scan_pc = "start"
    /\ scan_i = 0
    /\ index_to_path = <<>>
    /\ scan_ret = Ok(<<>>)
    /\ NothingOut
    /\ WatcherFresh(TRUE)

NextScan == ScanStart \/ ScanHashStep \/ ScanCallLookup \/ ScanAttempt \/ ScanFinish

SpecScan == InitScan /\ [][NextScan]_vars

\* The worker thread keeps running and every HTTP attempt returns.
FairSpecScan == SpecScan /\ WF_vars(NextScan)

\* ------------------------------------------------------------------------
\* start_realtime_watcher: the consumer loop, its producer and the clock
\* ------------------------------------------------------------------------

\* event.paths.last(): the last element of a non-empty sequence.
Last(q) == q[Len(q)]

\* let suppress_window = StdDuration::from_secs(2);
suppress_window == 2

\* if recent_hits.len() > 256 { ... }
SweepThreshold == 256

\* quarantine_root() and the watched Downloads directory, as component lists.
quarantine_dir == <<"data", "StellarAntivirus", "Quarantine">>
download_dir == <<"home", "Downloads">>

N_test == <<"s","t","e","l","l","a","r","-","t","e","s","t",".","b","i","n">>
N_test_underscore == <<"s","t","e","l","l","a","r","_","t","e","s","t",".","b","i","n">>
N_doc == <<"a",".","e","x","e">>

\* A path: the directory components and the file name.
P_test == [dirs |-> download_dir, name |-> N_test]
P_doc == [dirs |-> download_dir, name |-> N_doc]
P_quar == [dirs |-> quarantine_dir, name |-> N_doc]

RtPaths == {P_test, P_doc, P_quar}

\* Path::starts_with: base is a prefix of the path, component by component.
starts_with(path, base) ==
    /\ Len(base) <= Len(path.dirs)
    /\ SubSeq(path.dirs, 1, Len(base)) = base

\* is_test_filename: the lowercased file name is one of the two test names.
is_test_filename_never(path) == FALSE
is_test_filename(path) ==
    IF path.name # <<>>
    THEN LET lower == to_lowercase(path.name)
         IN lower = N_test \/ lower = N_test_underscore
    ELSE FALSE

\* The events the notify callback delivers: (EventKind, paths).
RtEvents ==
    { [kind |-> "Create", paths |-> <<P_test>>],
      [kind |-> "Create", paths |-> <<P_doc>>],
      [kind |-> "Modify", paths |-> <<P_doc>>],
      [kind |-> "Any",    paths |-> <<P_quar, P_doc>>],
      [kind |-> "Remove", paths |-> <<P_doc>>],
      [kind |-> "Access", paths |-> <<P_test>>],
      [kind |-> "Create", paths |-> <<P_quar>>],
      [kind |-> "Modify", paths |-> <<>>] }

\* let kind_str = match &event.kind { ... }
kind_str(kind) ==
    CASE kind = "Create" -> "create"
      [] kind = "Modify" -> "modify"
      [] kind = "Remove" -> "remove"
      [] kind = "Any" -> "any"
      [] OTHER -> "other"

\* matches!(event.kind, Create(_) | Modify(_) | Any)
relevant_any(kind) == TRUE
relevant(kind) == kind \in {"Create", "Modify", "Any"}

RealtimeFilePayload(file, event) == [file |-> file, event |-> event]

RelayEvent(file, kind) ==
    [name |-> "realtime_file_event", payload |-> RealtimeFilePayload(file, kind_str(kind))]

\* The event emitted when detected_name.is_some(): the pair's first component
\* is the literal "Threat detected"; the detected name is not read.
DetectionEvent(name, file) ==
    [name |-> "realtime_threat_detected",
     payload |-> ScanFinishedPayload(<< <<"Threat detected", file>> >>)]

\* if let Some(last) = recent_hits.get(&file)
\*     { if now.duration_since(*last) < suppress_window { continue; } }
Suppressed_never(file, now) == FALSE
Suppressed(file, now) ==
    /\ file \in DOMAIN recent_hits
    /\ now - recent_hits[file] < suppress_window

\* recent_hits.insert(file, now), then the sweep when the map is over the
\* threshold: retain(|_, t| *t >= Instant::now() - suppress_window).
AfterInsert_keeps_newest(file, now) == [f \in {file} |-> now]

AfterInsert(file, now) ==
    LET m == [f \in (DOMAIN recent_hits) \cup {file} |->
                 IF f = file THEN now ELSE recent_hits[f]]
    IN IF Cardinality(DOMAIN m) > SweepThreshold
       THEN [f \in {g \in DOMAIN m : m[g] >= now - suppress_window} |-> m[f]]
       ELSE m

\* The verdict test of the realtime path:
\* verdict != "clean" && verdict != "unknown", on the lowercased verdict.
rt_is_threat(v) ==
    LET verdict == to_lowercase(v) IN verdict # V_clean /\ verdict # V_unknown

\* The name of the realtime path: signature name, or "Unknown threat".
rt_display_name(result) ==
    IF result.signature.some THEN result.signature.val.name ELSE "Unknown threat"

\* What the match on call_threat_api_single's result leaves in detected_name.
NameFromLookup_fail_closed(ret) ==
    IF ret.ok /\ ret.val = <<>> THEN None ELSE Some("Unknown threat")
NameFromLookup(ret) ==
    IF ~ret.ok THEN None                       \* Err(e): logged
    ELSE IF ret.val = <<>> THEN None           \* Ok(None)
    ELSE IF rt_is_threat(Head(ret.val).verdict)
         THEN Some(rt_display_name(Head(ret.val)))
         ELSE None

\* The tail of an iteration: the detection event and the notification when
\* detected_name is set.
EndIteration_rereads_flag(name, file, already) ==
    /\ detected_name' = name
    /\ emitted' = IF name.some /\ REALTIME_ENABLED
                  THEN Append(already, DetectionEvent(name.val, file))
                  ELSE already
    /\ notified' = IF name.some /\ REALTIME_ENABLED
                   THEN Append(notified, [kind |-> "realtime_blocked", file |-> file])
                   ELSE notified
    /\ rt_pc' = "recv"

EndIteration(name, file, already) ==
    /\ detected_name' = name
    /\ emitted' = IF name.some
                  THEN Append(already, DetectionEvent(name.val, file))
                  ELSE already
    /\ notified' = IF name.some
                   THEN Append(notified, [kind |-> "realtime_blocked", file |-> file])
                   ELSE notified
    /\ rt_pc' = "recv"

\* if !REALTIME_ENABLED.load(Ordering::SeqCst) { continue; }
realtime_disabled_ignored == FALSE
realtime_disabled == ~REALTIME_ENABLED

\* An iteration that ends at a continue.
SkipIteration(already) ==
    /\ detected_name' = None
    /\ emitted' = already
    /\ UNCHANGED <<notified, recent_hits, rt_hashed, attempts, batch_vars>>
    /\ rt_pc' = "recv"

\* One iteration of `for event in rx`, up to its end or up to the point where
\* call_threat_api_single is entered.
RtReceive ==
    /\ rt_pc = "recv"
    /\ rx # <<>>
    /\ LET event == Head(rx) IN
       /\ rx' = Tail(rx)
       /\ rt_event' = event
       /\ IF realtime_disabled THEN SkipIteration(emitted)
          ELSE IF event.paths = <<>> THEN SkipIteration(emitted)
          ELSE LET path == Last(event.paths)
                   file == path
                   relayed == Append(emitted, RelayEvent(file, event.kind))
                   now == clock
               IN IF starts_with(path, quarantine_dir) THEN SkipIteration(emitted)
                  ELSE IF ~relevant(event.kind) THEN SkipIteration(relayed)
                  ELSE IF Suppressed(file, now) THEN SkipIteration(relayed)
                  ELSE /\ recent_hits' = AfterInsert(file, now)
                       /\ attempts' = Append(attempts, [file |-> file, at |-> now])
                       /\ IF is_test_filename(path)
                          THEN /\ EndIteration(Some("Stellar.Test.FileNameRule"), file, relayed)
                               /\ UNCHANGED <<rt_hashed, batch_vars>>
                          ELSE /\ rt_hashed' = Append(rt_hashed, path)
                               /\ IF sha256_of_file(path).some
                                  THEN /\ \E build_ok \in BOOLEAN :
                                            BatchEnter(
                                              <<ApiFileOfHash(to_lowercase(sha256_of_file(path).val))>>,
                                              build_ok)
                                       /\ rt_pc' = "lookup"
                                       /\ detected_name' = None
                                       /\ emitted' = relayed
                                       /\ notified' = notified
                                  ELSE /\ EndIteration(None, file, relayed)
                                       /\ UNCHANGED batch_vars
    /\ UNCHANGED <<env_vars, q_vars, scan_vars, REALTIME_ENABLED, config, produced, clock>>

\* An HTTP attempt of the iteration's lookup.
RtAttempt ==
    /\ rt_pc = "lookup"
    /\ \E o \in HttpOutcomes(ChunkAt(files, chunk_index)) : HttpAttempt(o)
    /\ UNCHANGED <<env_vars, q_vars, scan_vars, out_vars, rt_vars>>

\* The lookup has returned: the match on its result and the iteration's tail.
\* The activation of call_threat_api_batch is over and its locals are gone.
RtAfterLookup ==
    /\ rt_pc = "lookup"
    /\ batch_pc = "returned"
    /\ EndIteration(NameFromLookup(
                      IF batch_ret.ok
                      THEN Ok(IF batch_ret.val = <<>> THEN <<>> ELSE <<Head(batch_ret.val)>>)
                      ELSE batch_ret),
                    Last(rt_event.paths), emitted)
    /\ files' = <<>>
    /\ chunk_index' = 0
    /\ attempt' = 0
    /\ all_results' = <<>>
    /\ last_err' = None
    /\ batch_pc' = "idle"
    /\ batch_ret' = Ok(<<>>)
    /\ http_log' = <<>>
    /\ UNCHANGED <<env_vars, q_vars, scan_vars, client_builds, REALTIME_ENABLED, config, rx,
                   produced, clock, recent_hits, rt_event, rt_hashed, attempts>>

\* The notify callback: Ok(event) => tx.send(event).
WatcherCallback ==
    /\ produced < MaxEvents
    /\ \E ev \in RtEvents : rx' = Append(rx, ev)
    /\ produced' = produced + 1
    /\ UNCHANGED <<env_vars, q_vars, batch_vars, scan_vars, out_vars, REALTIME_ENABLED, config,
                   clock, recent_hits, rt_pc, rt_event, detected_name, rt_hashed,
                   attempts>>

\* The set_realtime_enabled command: the store, then the config file.
set_realtime_enabled ==
    /\ \E enabled \in BOOLEAN :
          /\ REALTIME_ENABLED' = enabled
          /\ config' = [config EXCEPT !.realtime_enabled = enabled]
    /\ UNCHANGED <<env_vars, q_vars, batch_vars, scan_vars, out_vars, rx, produced, clock,
                   recent_hits, rt_pc, rt_event, detected_name, rt_hashed, attempts>>

\* A second passes.
Tick ==
    /\ clock < MaxTime
    /\ clock' = clock + 1
    /\ UNCHANGED <<env_vars, q_vars, batch_vars, scan_vars, out_vars, REALTIME_ENABLED, config,
                   rx, produced, recent_hits, rt_pc, rt_event, detected_name, rt_hashed,
                   attempts>>

\* What the remote may hold for the one content the watched files have.
RtDbEntries ==
    { [verdict |-> V_Clean,      signature |-> None],
      [verdict |-> V_malicious,  signature |-> Some(Signature("Trojan.Test"))],
      [verdict |-> V_Suspicious, signature |-> None] }

InitRealtime ==
    /\ QuarantineOff
    /\ \E enabled \in BOOLEAN : WatcherFresh(enabled)
    /\ fs \in {[p \in RtPaths |-> IF p = q THEN NoFile ELSE 0] : q \in {P_doc, P_test}}
    /\ db \in {[c \in Contents |-> IF c = 0 THEN e ELSE DefaultEntry] : e \in RtDbEntries}
    /\ files = <<>>
    /\ BatchIdle
    /\ ScanOff
    /\ NothingOut

NextRealtime ==
    RtReceive \/ RtAttempt \/ RtAfterLookup \/ WatcherCallback
    \/ set_realtime_enabled \/ Tick

SpecRealtime == InitRealtime /\ [][NextRealtime]_vars

\* ------------------------------------------------------------------------
\* The watcher under a burst of changes to two watched files
\* ------------------------------------------------------------------------

\* The events of a burst: creations and modifications of the same files.
BurstEvents ==
    { [kind |-> "Create", paths |-> <<P_doc>>],
      [kind |-> "Modify", paths |-> <<P_doc>>],
      [kind |-> "Create", paths |-> <<P_test>>] }

\* The notify callback during a burst.
WatcherBurst ==
    /\ produced < MaxBurst
    /\ \E ev \in BurstEvents : rx' = Append(rx, ev)
    /\ produced' = produced + 1
    /\ UNCHANGED <<env_vars, q_vars, batch_vars, scan_vars, out_vars, REALTIME_ENABLED, config,
                   clock, recent_hits, rt_pc, rt_event, detected_name, rt_hashed,
                   attempts>>

InitDebounce ==
    /\ QuarantineOff
    /\ WatcherFresh(TRUE)
    /\ fs = [p \in RtPaths |-> 0]
    /\ db \in {[c \in Contents |-> IF c = 0 THEN e ELSE DefaultEntry] : e \in RtDbEntries}
    /\ files = <<>>
    /\ BatchIdle
    /\ ScanOff
    /\ NothingOut

NextDebounce == RtReceive \/ RtAttempt \/ RtAfterLookup \/ WatcherBurst \/ Tick

SpecDebounce == InitDebounce /\ [][NextDebounce]_vars

\* ------------------------------------------------------------------------
\* The watcher with a recency map at the sweep threshold
\* ------------------------------------------------------------------------

\* The k-th of the files that had a detection attempt before.
Filler(k) == [dirs |-> Append(download_dir, ToString(k)), name |-> N_doc]

\* recent_hits after detection attempts on 256 different files, one every
\* 20 ms (the settle delay), the last of them at time 0.
FullMap ==
    [g \in {Filler(k) : k \in 1..SweepThreshold} |->
        LET k == CHOOSE j \in 1..SweepThreshold : Filler(j) = g
        IN 0 - ((SweepThreshold - k) \div 50)]

\* Events on a new file, on the oldest file of the map and on the newest.
SweepEvents ==
    { [kind |-> "Create", paths |-> <<P_test>>],
      [kind |-> "Create", paths |-> <<Filler(1)>>],
      [kind |-> "Modify", paths |-> <<Filler(SweepThreshold)>>] }

\* The notify callback.
WatcherSweep ==
    /\ produced < MaxBurst
    /\ \E ev \in SweepEvents : rx' = Append(rx, ev)
    /\ produced' = produced + 1
    /\ UNCHANGED <<env_vars, q_vars, batch_vars, scan_vars, out_vars, REALTIME_ENABLED, config,
                   clock, recent_hits, rt_pc, rt_event, detected_name, rt_hashed,
                   attempts>>

\* The files of the earlier attempts are gone or unreadable by now.
InitSweep ==
    /\ QuarantineOff
    /\ REALTIME_ENABLED = TRUE
    /\ config = [realtime_enabled |-> TRUE, shown_background_hint |-> FALSE]
    /\ rx = <<>>
    /\ produced = 0
    /\ clock = 0
    /\ recent_hits = FullMap
    /\ rt_pc = "recv"
    /\ rt_event = NoEvent
    /\ detected_name = None
    /\ rt_hashed = <<>>
    /\ attempts = <<>>
    /\ fs = [p \in {P_test, Filler(1), Filler(SweepThreshold)} |-> NoFile]
    /\ db = BatchDb
    /\ files = <<>>
    /\ BatchIdle
    /\ ScanOff
    /\ NothingOut

NextSweep == RtReceive \/ WatcherSweep \/ Tick

SpecSweep == InitSweep /\ [][NextSweep]_vars

\* ------------------------------------------------------------------------
\* The quarantine store: names, paths and the filesystem calls
\* ------------------------------------------------------------------------

\* Number of quarantine commands invoked one after the other.
MaxCalls == 2

\* The main separator of std::path (Unix).
Sep == "/"

\* The segments of a name between separators, in order (empty ones included).
RECURSIVE SplitAt(_, _)
SplitAt(str, cur) ==
    IF str = <<>> THEN <<cur>>
    ELSE IF Head(str) = Sep THEN <<cur>> \o SplitAt(Tail(str), <<>>)
    ELSE SplitAt(Tail(str), Append(cur, Head(str)))

\* Path::new(name).components(): a leading separator is RootDir; empty
\* segments and "." segments are dropped, except a "." that starts a path
\* with no root, which is CurDir; ".." is ParentDir; anything else is Normal.
components(name) ==
    LET segs == SplitAt(name, <<>>)
        has_root == name # <<>> /\ Head(name) = Sep
        kind(k) ==
            IF segs[k] = <<>> THEN "skip"
            ELSE IF segs[k] = <<".">> THEN (IF k = 1 /\ ~has_root THEN "CurDir" ELSE "skip")
            ELSE IF segs[k] = <<".", ".">> THEN "ParentDir"
            ELSE "Normal"
        all == [k \in 1..Len(segs) |-> [kind |-> kind(k), text |-> segs[k]]]
        kept(c) == c.kind # "skip"
    IN (IF has_root THEN <<[kind |-> "RootDir", text |-> <<Sep>>]>> ELSE <<>>)
       \o SelectSeq(all, kept)

ErrInvalidName == [kind |-> "invalid_name"]

\* validate_quarantine_name: Ok iff the first component is Normal and there
\* is no second one.
validate_quarantine_name(name) ==
    LET comps == components(name) IN
    IF Len(comps) = 1 /\ comps[1].kind = "Normal"
    THEN Ok(<<>>)
    ELSE Err(ErrInvalidName)

\* The names handed to restore and delete.
QN_file == <<"x", ".", "e", "x", "e">>
QN_trailing == <<"x", ".", "e", "x", "e", "/">>
QN_traversal == <<".", ".", "/", "x", ".", "e", "x", "e">>
QN_parent == <<".", ".">>
QNames == {QN_file, QN_trailing, QN_traversal, QN_parent}

dir_a == <<"home", "a">>
dir_b == <<"home", "b">>

\* Two files with the same file name in two directories.
O1 == [dirs |-> dir_a, name |-> QN_file]
O2 == [dirs |-> dir_b, name |-> QN_file]

\* Path::with_extension: the part of the file name after its last "." (if
\* that is not its first character) is replaced by the extension.
with_extension(path, ext) ==
    LET n == path.name
        dots == {k \in 2..Len(n) : n[k] = "."}
        stem == IF dots = {} THEN n
                ELSE SubSeq(n, 1, (CHOOSE k \in dots : \A j \in dots : j <= k) - 1)
    IN [dirs |-> path.dirs, name |-> stem \o <<".">> \o ext]

stellar_backup == <<"s","t","e","l","l","a","r","_","b","a","c","k","u","p">>

\* quarantine_root().join(name) for a name that is one Normal component.
\* The entry it can name is that component in the quarantine root.
quarantine_join(name) == [dirs |-> quarantine_dir, name |-> components(name)[1].text]

\* The joined path names the entry itself only if the name is exactly its
\* component; with anything after the component (a trailing separator) the
\* path resolves only if the entry is a directory, and entries are files.
names_entry(name) == components(name)[1].text = name

Q1 == quarantine_join(QN_file)
K1 == with_extension(O1, stellar_backup)
K2 == with_extension(O2, stellar_backup)

\* Every path the commands can touch.
QPaths == {O1, O2, Q1, K1, K2}

\* What fs::copy can leave at the destination when it fails midway.
Partial == 9

\* What the filesystem holds at a path that is a directory.
Dir == 8

\* The directory holding O1, and what quarantine_root().join(its file name)
\* names. Directory names have one character here, so that the component a
\* directory contributes to the paths below it is name[1].
DA == [dirs |-> <<"home">>, name |-> <<"a">>]
QA == [dirs |-> quarantine_dir, name |-> <<"a">>]
as_dir(path) == Append(path.dirs, path.name[1])
QA1 == [dirs |-> as_dir(QA), name |-> O1.name]
QAK1 == [dirs |-> as_dir(QA), name |-> K1.name]

\* A path that ends in "..": Path::file_name is None for it.
P_up == [dirs |-> <<"home">>, name |-> QN_parent]

\* Path::file_name
file_name(path) == IF path.name = QN_parent THEN None ELSE Some(path.name)

\* Path::exists
exists(path) == fs[path] # NoFile

\* The filesystem after fs::remove_file(path) succeeds.
removed(f, path) == [f EXCEPT ![path] = NoFile]

\* The filesystem after fs::rename(src, dest) succeeds: dest is replaced.
\* A directory is moved with everything below it.
renamed(f, src, dest) ==
    IF src = dest THEN f
    ELSE IF f[src] # Dir THEN [f EXCEPT ![dest] = f[src], ![src] = NoFile]
    ELSE [p \in DOMAIN f |->
            CASE p = dest -> Dir
              [] p = src -> NoFile
              [] p.dirs = as_dir(src) -> NoFile
              [] p.dirs = as_dir(dest) ->
                    LET q == [dirs |-> as_dir(src), name |-> p.name]
                    IN IF q \in DOMAIN f THEN f[q] ELSE NoFile
              [] OTHER -> f[p]]

\* fs::rename can succeed: src exists, a directory is not moved onto an
\* existing entry and a file is not moved onto a directory.
can_rename(f, src, dest) ==
    /\ f[src] # NoFile
    /\ f[src] = Dir => f[dest] = NoFile
    /\ f[src] # Dir => f[dest] # Dir

\* fs::copy can succeed: src is a regular file and dest is not a directory.
can_copy(f, src, dest) == f[src] \notin {NoFile, Dir} /\ f[dest] # Dir

\* The filesystem after fs::create_dir_all(d) succeeds. Directories that
\* are not paths of the filesystem map always exist.
create_dir_all(f, d) ==
    [p \in DOMAIN f |-> IF as_dir(p) = d /\ f[p] = NoFile THEN Dir ELSE f[p]]

\* The filesystem after fs::copy(src, dest) succeeds.
copied_truncated(f, src, dest) == [f EXCEPT ![dest] = Partial]
copied(f, src, dest) == [f EXCEPT ![dest] = f[src]]

\* The filesystem after fs::copy(src, dest) fails: nothing written, or a
\* destination created and partly written.
copy_failed(f, src, dest) ==
    IF ~can_copy(f, src, dest) \/ src = dest THEN {f}
    ELSE {f, [f EXCEPT ![dest] = Partial]}

\* ------------------------------------------------------------------------
\* quarantine_files, restore_from_quarantine, delete_quarantine_files
\* ------------------------------------------------------------------------

\* Longest argument list of a quarantine command.
MaxItems == 2

ErrCreateDir == [kind |-> "create_dir"]
ErrQuarantine == [kind |-> "quarantine"]
ErrRestore == [kind |-> "restore"]
ErrDelete == [kind |-> "delete"]

\* How one loop iteration ends: with the next item (or Ok after the last
\* one), or with the command returning an error.
Continue(f) == [fs |-> f, err |-> None, mkdir |-> None]
ReturnErr(f, e) == [fs |-> f, err |-> Some(e), mkdir |-> None]

\* The item names no entry of the quarantine root: logged, continue.
OnMissing_fails(f) == ReturnErr(f, ErrDelete)
OnMissing(f) == Continue(f)

\* fs::rename(src, dest), and when it fails fs::copy then fs::remove_file:
\* every way the move can end, e being the error of a failed fallback.
MoveOutcomes(f, src, dest, e) ==
    (IF can_rename(f, src, dest) THEN {Continue(renamed(f, src, dest))} ELSE {})
    \cup (IF can_copy(f, src, dest)
          THEN {Continue(removed(copied(f, src, dest), src)),
                ReturnErr(copied(f, src, dest), e)}
          ELSE {})
    \cup {ReturnErr(g, e) : g \in copy_failed(f, src, dest)}

\* One iteration of the loop of quarantine_files.
QuarantineOutcomes(f, original) ==
    LET src == original
        fname == IF file_name(src).some THEN file_name(src).val
                 ELSE <<"u", "n", "k", "n", "o", "w", "n">>
        dest == [dirs |-> quarantine_dir, name |-> fname]
        cleared == IF f[dest] \notin {NoFile, Dir} THEN {removed(f, dest), f} ELSE {f}
    IN IF f[src] = NoFile
       THEN {Continue(f)}
       ELSE UNION {MoveOutcomes(g, src, dest, ErrQuarantine) : g \in cleared}

\* Whether restore renames the occupant of dest aside before the move.
backup_occupant(f, dest) == f[dest] # NoFile

\* One iteration of the loop of restore_from_quarantine.
RestoreOutcomes(f, item) ==
    IF ~validate_quarantine_name(item.file_name).ok
    THEN {ReturnErr(f, ErrInvalidName)}
    ELSE LET src == quarantine_join(item.file_name)
             dest == item.original_path
             backup == with_extension(dest, stellar_backup)
             aside == IF backup_occupant(f, dest)
                      THEN {renamed(f, dest, backup), f}
                      ELSE {f}
         IN IF ~(names_entry(item.file_name) /\ f[src] # NoFile)
            THEN {OnMissing(f)}
            ELSE \* fs::create_dir_all(dest.parent()) comes first
                 {[o EXCEPT !.mkdir = Some(dest.dirs)] :
                    o \in UNION {MoveOutcomes(create_dir_all(g, dest.dirs), src, dest, ErrRestore)
                                    \cup {ReturnErr(g, ErrRestore)} : g \in aside}}

\* One iteration of the loop of delete_quarantine_files.
DeleteOutcomes(f, name) ==
    IF ~validate_quarantine_name(name).ok
    THEN {ReturnErr(f, ErrInvalidName)}
    ELSE LET path == quarantine_join(name)
         IN IF ~(names_entry(name) /\ f[path] # NoFile)
            THEN {OnMissing(f)}
            ELSE {Continue(removed(f, path)), ReturnErr(f, ErrDelete)}

ErrDeleteFile == [kind |-> "delete_file"]
ErrPanic == [kind |-> "panic"]

\* One iteration of the loop of delete_files. Option::unwrap panics on a
\* path with no file name; fs::remove_file fails on a directory.
DeleteFilesOutcomes(f, original) ==
    IF ~file_name(original).some
    THEN {ReturnErr(f, ErrPanic)}
    ELSE LET qpath == [dirs |-> quarantine_dir, name |-> file_name(original).val]
         IN IF f[qpath] = NoFile
            THEN {Continue(f)}
            ELSE (IF f[qpath] # Dir THEN {Continue(removed(f, qpath))} ELSE {})
                 \cup {ReturnErr(f, ErrDeleteFile)}

\* Sequences of at most MaxItems elements of S.
ListsOf(S) == UNION {[1..n -> S] : n \in 0..MaxItems}

RestoreItems ==
    {[file_name |-> n, original_path |-> O1] : n \in {QN_file, QN_trailing, QN_traversal}}
    \cup {[file_name |-> QN_file, original_path |-> O2]}

\* No command is running and another one may be invoked.
CanInvoke == q_pc \in {"idle", "returned"} /\ q_calls < MaxCalls

\* A command is invoked: its argument is bound and the loop is entered, or
\* the command returns at once (nothing to do, or create_dir_all failed).
Invoke(op, items, entry_ok) ==
    /\ q_calls' = q_calls + 1
    /\ q_prev' = [op |-> q_op, ret |-> q_ret]
    /\ q_op' = op
    /\ q_items' = items
    /\ q_i' = 0
    /\ fs_at_call' = fs
    /\ mkdir_calls' = IF op = "quarantine"
                      THEN mkdir_calls \cup {quarantine_dir}
                      ELSE mkdir_calls
    /\ IF ~entry_ok
       THEN q_pc' = "returned" /\ q_ret' = Err(ErrCreateDir)
       ELSE IF items = <<>>
       THEN q_pc' = "returned" /\ q_ret' = Ok(<<>>)
       ELSE q_pc' = "loop" /\ q_ret' = q_ret
    /\ UNCHANGED <<env_vars, fs0, batch_vars, scan_vars, out_vars, rt_vars>>

\* One loop iteration with outcome o.
Iterate(o) ==
    /\ fs' = o.fs
    /\ mkdir_calls' = IF o.mkdir.some THEN mkdir_calls \cup {o.mkdir.val} ELSE mkdir_calls
    /\ IF o.err.some
       THEN /\ q_pc' = "returned"
            /\ q_ret' = Err(o.err.val)
            /\ q_i' = q_i
       ELSE /\ q_i' = q_i + 1
            /\ IF q_i + 1 = Len(q_items)
               THEN q_pc' = "returned" /\ q_ret' = Ok(<<>>)
               ELSE q_pc' = "loop" /\ q_ret' = q_ret
    /\ UNCHANGED <<db, q_op, q_items, q_prev, q_calls, fs_at_call, fs0,
                   batch_vars, scan_vars, out_vars, rt_vars>>

quarantine_files ==
    /\ CanInvoke
    /\ \E paths \in ListsOf({O1, O2}), dir_ok \in BOOLEAN :
          Invoke("quarantine", paths, dir_ok)

QuarantineStep ==
    /\ q_op = "quarantine"
    /\ q_pc = "loop"
    /\ \E o \in QuarantineOutcomes(fs, q_items[q_i + 1]) : Iterate(o)

restore_from_quarantine ==
    /\ CanInvoke
    /\ \E items \in ListsOf(RestoreItems) : Invoke("restore", items, TRUE)

RestoreStep ==
    /\ q_op = "restore"
    /\ q_pc = "loop"
    /\ \E o \in RestoreOutcomes(fs, q_items[q_i + 1]) : Iterate(o)

delete_quarantine_files ==
    /\ CanInvoke
    /\ \E fileNames \in ListsOf(QNames) : Invoke("delete", fileNames, TRUE)

DeleteStep ==
    /\ q_op = "delete"
    /\ q_pc = "loop"
    /\ \E o \in DeleteOutcomes(fs, q_items[q_i + 1]) : Iterate(o)

\* The store before the first command: the two files may exist, and an
\* earlier quarantine may have left an entry of their name.
InitQuarantine ==
    /\ fs \in {[p \in QPaths |->
                  CASE p = O1 -> a [] p = O2 -> b [] p = Q1 -> q [] OTHER -> NoFile] :
               a \in {0, NoFile}, b \in {1, NoFile}, q \in {1, NoFile}}
    /\ db = BatchDb
    /\ fs0 = fs
    /\ fs_at_call = fs
    /\ q_op = "none"
    /\ q_pc = "idle"
    /\ q_items = <<>>
    /\ q_i = 0
    /\ q_ret = Ok(<<>>)
    /\ q_prev = [op |-> "none", ret |-> Ok(<<>>)]
    /\ q_calls = 0
    /\ mkdir_calls = {}
    /\ files = <<>>
    /\ BatchIdle
    /\ ScanOff
    /\ NothingOut
    /\ WatcherFresh(TRUE)

NextQuarantine ==
    quarantine_files \/ QuarantineStep \/ restore_from_quarantine \/ RestoreStep
    \/ delete_quarantine_files \/ DeleteStep

SpecQuarantine == InitQuarantine /\ [][NextQuarantine]_vars

\* The store with no delete command ever invoked.
NextStore ==
    quarantine_files \/ QuarantineStep \/ restore_from_quarantine \/ RestoreStep

SpecStore == InitQuarantine /\ [][NextStore]_vars

\* ------------------------------------------------------------------------
\* The four commands with paths that may name a directory
\* ------------------------------------------------------------------------

RootPaths == QPaths \cup {DA, QA, QA1, QAK1}

\* quarantine_files with paths that name a file or the directory holding it.
QuarantineAny ==
    /\ CanInvoke
    /\ \E paths \in ListsOf({O1, DA}), dir_ok \in BOOLEAN :
          Invoke("quarantine", paths, dir_ok)

delete_files ==
    /\ CanInvoke
    /\ \E paths \in ListsOf({O1, DA, P_up}) : Invoke("delete_files", paths, TRUE)

DeleteFilesStep ==
    /\ q_op = "delete_files"
    /\ q_pc = "loop"
    /\ \E o \in DeleteFilesOutcomes(fs, q_items[q_i + 1]) : Iterate(o)

InitRoot ==
    /\ fs \in {[p \in RootPaths |->
                  CASE p = O1 -> a [] p = DA -> Dir [] p = Q1 -> q [] OTHER -> NoFile] :
               a \in {0, NoFile}, q \in {1, NoFile}}
    /\ db = BatchDb
    /\ fs0 = fs
    /\ fs_at_call = fs
    /\ q_op = "none"
    /\ q_pc = "idle"
    /\ q_items = <<>>
    /\ q_i = 0
    /\ q_ret = Ok(<<>>)
    /\ q_prev = [op |-> "none", ret |-> Ok(<<>>)]
    /\ q_calls = 0
    /\ mkdir_calls = {}
    /\ files = <<>>
    /\ BatchIdle
    /\ ScanOff
    /\ NothingOut
    /\ WatcherFresh(TRUE)

NextRoot ==
    QuarantineAny \/ QuarantineStep \/ restore_from_quarantine \/ RestoreStep
    \/ delete_quarantine_files \/ DeleteStep \/ delete_files \/ DeleteFilesStep

SpecRoot == InitRoot /\ [][NextRoot]_vars

\* ------------------------------------------------------------------------
\* A file is quarantined and then restored
\* ------------------------------------------------------------------------

\* quarantine_files([original]) for a file that exists.
QuarantineOne ==
    /\ CanInvoke
    /\ q_op = "none"
    /\ \E original \in {O1, O2}, dir_ok \in BOOLEAN :
          /\ exists(original)
          /\ Invoke("quarantine", <<original>>, dir_ok)

\* restore_from_quarantine with that file's base name and original path.
RestoreSame ==
    /\ CanInvoke
    /\ q_op = "quarantine"
    /\ Invoke("restore",
              <<[file_name |-> q_items[1].name, original_path |-> q_items[1]]>>,
              TRUE)

NextRoundTrip == QuarantineOne \/ QuarantineStep \/ RestoreSame \/ RestoreStep

SpecRoundTrip == InitQuarantine /\ [][NextRoundTrip]_vars

\* ------------------------------------------------------------------------
\* try_add_path, collect_paths
\* ------------------------------------------------------------------------

\* Most entries below the three roots together.
MaxEntries == 3

\* Largest max_files.
MaxCap == 2

FULL_MAX_FILE_BYTES == 2

\* The roots in the order collect_paths walks them.
Roots == <<"downloads", "documents", "desktop">>

\* What a directory entry can be: a file within the ceiling, a file over it,
\* a file whose metadata cannot be read, a file three levels down, a
\* directory.
Entries ==
    {[is_file |-> TRUE, depth |-> 1, len |-> 1, meta_ok |-> TRUE],
     [is_file |-> TRUE, depth |-> 1, len |-> 3, meta_ok |-> TRUE],
     [is_file |-> TRUE, depth |-> 1, len |-> 1, meta_ok |-> FALSE],
     [is_file |-> TRUE, depth |-> 3, len |-> 1, meta_ok |-> TRUE],
     [is_file |-> FALSE, depth |-> 1, len |-> 0, meta_ok |-> TRUE]}

\* WalkDir::new(root).max_depth(max_depth).into_iter().flatten(): the
\* entries of the root no deeper than max_depth, in walk order, each as its
\* position in the root.
WalkDir(root, max_depth) ==
    SelectSeq([i \in 1..Len(tree[root]) |-> i],
              LAMBDA i : tree[root][i].depth <= max_depth)

\* The path of entry i of a root.
into_path(root, i) == [root |-> root, i |-> i]

\* try_add_path: what it returns, and paths and skipped_too_big after it.
try_add_path_stops(paths, p, e, max_files, max_file_bytes, skipped) ==
    IF Len(paths) >= max_files \/ (max_file_bytes.some /\ e.len > max_file_bytes.val)
    THEN [ret |-> FALSE, paths |-> paths, skipped_too_big |-> skipped]
    ELSE [ret |-> TRUE, paths |-> Append(paths, p), skipped_too_big |-> skipped]

try_add_path(paths, p, e, max_files, max_file_bytes, skipped) ==
    IF Len(paths) >= max_files
    THEN [ret |-> FALSE, paths |-> paths, skipped_too_big |-> skipped]
    ELSE IF max_file_bytes.some /\ ~e.meta_ok
    THEN [ret |-> TRUE, paths |-> paths, skipped_too_big |-> skipped]
    ELSE IF max_file_bytes.some /\ e.len > max_file_bytes.val
    THEN [ret |-> TRUE, paths |-> paths, skipped_too_big |-> skipped + 1]
    ELSE [ret |-> TRUE, paths |-> Append(paths, p), skipped_too_big |-> skipped]

\* Whether collect_paths walks root r: downloads always, the other two if
\* included and the cap is not reached.
walks_root(r) ==
    CASE r = 1 -> TRUE
      [] r = 2 -> args.include_documents /\ Len(paths_to_scan) < args.max_files
      [] r = 3 -> args.include_desktop /\ Len(paths_to_scan) < args.max_files

\* Control after the loop over root r: the next root, or the return.
AfterRoot(r) ==
    IF r < Len(Roots)
    THEN [root |-> r + 1, k |-> 0, pc |-> "root"]
    ELSE [root |-> r, k |-> 0, pc |-> "returned"]

\* The if around the loop over a root.
CollectEnterRoot ==
    /\ walk.pc = "root"
    /\ walk' = IF walks_root(walk.root)
               THEN [walk EXCEPT !.pc = "walk"]
               ELSE AfterRoot(walk.root)
    /\ UNCHANGED <<env_vars, q_vars, batch_vars, out_vars, rt_vars, tree, args,
                   skipped_too_big, paths_to_scan, scan_pc, scan_i, index_to_path,
                   scan_ret>>

\* One iteration of the loop over a root, or its end.
CollectWalkStep ==
    /\ walk.pc = "walk"
    /\ LET root == Roots[walk.root]
           entries == WalkDir(root, args.max_depth)
       IN IF walk.k = Len(entries) \/ Len(paths_to_scan) >= args.max_files
          THEN /\ walk' = AfterRoot(walk.root)
               /\ UNCHANGED <<paths_to_scan, skipped_too_big>>
          ELSE LET i == entries[walk.k + 1]
                   e == tree[root][i]
                   r == try_add_path(paths_to_scan, into_path(root, i), e,
                                     args.max_files, args.max_file_bytes,
                                     skipped_too_big)
               IN IF ~e.is_file
                  THEN /\ walk' = [walk EXCEPT !.k = walk.k + 1]
                       /\ UNCHANGED <<paths_to_scan, skipped_too_big>>
                  ELSE /\ paths_to_scan' = r.paths
                       /\ skipped_too_big' = r.skipped_too_big
                       /\ walk' = IF r.ret
                                  THEN [walk EXCEPT !.k = walk.k + 1]
                                  ELSE AfterRoot(walk.root)
    /\ UNCHANGED <<env_vars, q_vars, batch_vars, out_vars, rt_vars, tree, args,
                   scan_pc, scan_i, index_to_path, scan_ret>>

\* fake_full_scan and quick_scan call collect_paths with a size ceiling.
InitCollect ==
    /\ \E n1 \in 0..MaxEntries :
         \E n2 \in 0..(MaxEntries - n1) :
           \E n3 \in 0..(MaxEntries - n1 - n2) :
              tree \in {[downloads |-> a, documents |-> b, desktop |-> c] :
                          a \in [1..n1 -> Entries], b \in [1..n2 -> Entries],
                          c \in [1..n3 -> Entries]}
    /\ args \in [max_depth : {2, 3}, max_files : 0..MaxCap,
                  include_documents : BOOLEAN, include_desktop : BOOLEAN,
                  max_file_bytes : {Some(FULL_MAX_FILE_BYTES)}]
    /\ walk = [root |-> 1, k |-> 0, pc |-> "root"]
    /\ skipped_too_big = 0
    /\ paths_to_scan = <<>>
    /\ scan_pc = "off"
    /\ scan_i = 0
    /\ index_to_path = <<>>
    /\ scan_ret = Ok(<<>>)
    /\ fs = <<>>
    /\ db = BatchDb
    /\ files = <<>>
    /\ BatchIdle
    /\ NothingOut
    /\ QuarantineOff
    /\ WatcherFresh(TRUE)

NextCollect == CollectEnterRoot \/ CollectWalkStep

SpecCollect == InitCollect /\ [][NextCollect]_vars

\* ------------------------------------------------------------------------
\* Properties of run_hash_lookup_scan
\* ------------------------------------------------------------------------

FinishedEvents ==
    LET fin(e) == e.name = "scan_finished" IN SelectSeq(emitted, fin)

\* The scan has returned after a lookup that was entered.
ScanReturnedAfterLookup == scan_pc = "returned" /\ batch_pc = "returned"

\* The threats of the terminal event.
ReportedThreats == Last(FinishedEvents).payload.threats

\* C1: every execution of run_hash_lookup_scan reaches its return, has
\* emitted exactly one scan_finished event when it returns, and has emitted
\* none before (so it never returns without it, and never emits two).
C1_ScanEmitsOneFinished ==
    /\ <>(scan_pc = "returned")
    /\ [](scan_pc = "returned" => Len(FinishedEvents) = 1)
    /\ [](scan_pc # "returned" => Len(FinishedEvents) = 0)

\* A scan that returned after build_http_client failed, its event emitted.
C1_Witness ==
    /\ scan_pc = "returned"
    /\ ~scan_ret.ok
    /\ scan_ret.err = ErrBuild
    /\ Len(FinishedEvents) = 1

\* C2: when the lookup of a scan fails, the one scan_finished event carries
\* an empty threats list, it is the last event emitted, and the scan returns
\* the lookup's error.
C2_FailedLookupReportsNothing ==
    (ScanReturnedAfterLookup /\ ~batch_ret.ok) =>
        /\ FinishedEvents = <<[name |-> "scan_finished", payload |-> [threats |-> <<>>]]>>
        /\ Last(emitted).name = "scan_finished"
        /\ scan_ret = Err(batch_ret.err)

\* A scan over a file the database calls malicious, whose lookup failed on
\* the retry after a 503.
C2_Witness ==
    /\ ScanReturnedAfterLookup
    /\ ~batch_ret.ok
    /\ Len(http_log) = 2
    /\ http_log[1].outcome = [kind |-> "status", code |-> 503, body |-> "none"]
    /\ http_log[2].outcome.kind = "transport"
    /\ \E k \in 1..Len(index_to_path) :
          db[fs[index_to_path[k].path]].verdict = V_malicious

\* The verdict is clean or unknown, whatever its case.
IsCleanOrUnknown(v) == to_lowercase(v) \in {V_clean, V_unknown}

\* The fingerprint of the result is that of a file hashed in this scan.
Correlates(r) ==
    \E k \in 1..Len(index_to_path) :
        to_lowercase(index_to_path[k].hash) = to_lowercase(r.sha256)

\* Some pair of the threats list names a file with the result's fingerprint.
AppearsIn(r, threats) ==
    \E t \in 1..Len(threats), k \in 1..Len(index_to_path) :
        /\ threats[t][2] = index_to_path[k].path
        /\ to_lowercase(index_to_path[k].hash) = to_lowercase(r.sha256)

\* C8 as stated: in a successful scan no clean/unknown result appears in the
\* threats list and every other result does.
C8_Original ==
    (ScanReturnedAfterLookup /\ batch_ret.ok) =>
        \A i \in 1..Len(batch_ret.val) :
            LET r == batch_ret.val[i] IN
            IF IsCleanOrUnknown(r.verdict)
            THEN ~AppearsIn(r, ReportedThreats)
            ELSE AppearsIn(r, ReportedThreats)

\* C8 amended: in a successful scan no clean/unknown result appears in the
\* threats list, and every other result whose fingerprint is, ignoring case,
\* that of a file hashed in this scan does; a result about a fingerprint no
\* hashed file has is not reported.
C8_VerdictNormalization ==
    (ScanReturnedAfterLookup /\ batch_ret.ok) =>
        \A i \in 1..Len(batch_ret.val) :
            LET r == batch_ret.val[i] IN
            /\ IsCleanOrUnknown(r.verdict) => ~AppearsIn(r, ReportedThreats)
            /\ (~IsCleanOrUnknown(r.verdict) /\ Correlates(r))
                  => AppearsIn(r, ReportedThreats)
            /\ ~Correlates(r) => ~AppearsIn(r, ReportedThreats)

\* A successful scan whose results hold a "CLEAN" and a "Suspicious" verdict
\* for two hashed files, of which exactly the second is reported.
C8_Witness ==
    /\ ScanReturnedAfterLookup
    /\ batch_ret.ok
    /\ Len(ReportedThreats) = 1
    /\ \E i, j \in 1..Len(batch_ret.val) :
          /\ batch_ret.val[i].verdict = V_CLEAN
          /\ Correlates(batch_ret.val[i])
          /\ batch_ret.val[j].verdict = V_Suspicious
          /\ AppearsIn(batch_ret.val[j], ReportedThreats)

\* C9: in a successful scan every positive result about a hashed file is
\* reported as a pair whose name is the signature's name when the result has
\* a signature and "Unknown threat" when it has none; every reported name is
\* such a name; and the scan returns Ok whatever signatures are missing.
C9_PositiveVerdictsCarryName ==
    (ScanReturnedAfterLookup /\ batch_ret.ok) =>
        LET expected(r) == IF r.signature = None
                           THEN "Unknown threat"
                           ELSE r.signature.val.name
            positive == {i \in 1..Len(batch_ret.val) :
                            /\ ~IsCleanOrUnknown(batch_ret.val[i].verdict)
                            /\ Correlates(batch_ret.val[i])}
        IN /\ scan_ret.ok
           /\ \A i \in positive :
                \E t \in 1..Len(ReportedThreats), k \in 1..Len(index_to_path) :
                    /\ ReportedThreats[t][1] = expected(batch_ret.val[i])
                    /\ ReportedThreats[t][2] = index_to_path[k].path
                    /\ to_lowercase(index_to_path[k].hash)
                          = to_lowercase(batch_ret.val[i].sha256)
           /\ \A t \in 1..Len(ReportedThreats) :
                \E i \in positive : ReportedThreats[t][1] = expected(batch_ret.val[i])
           /\ Len(ReportedThreats) = Cardinality(positive)

\* A successful scan reporting one threat by its signature name and one,
\* without signature, as "Unknown threat".
C9_Witness ==
    /\ ScanReturnedAfterLookup
    /\ batch_ret.ok
    /\ scan_ret.ok
    /\ \E t, u \in 1..Len(ReportedThreats) :
          /\ ReportedThreats[t][1] = "Unknown threat"
          /\ ReportedThreats[u][1] = "Trojan.Test"

\* ------------------------------------------------------------------------
\* Properties of call_threat_api_batch
\* ------------------------------------------------------------------------

\* A transport-level failure or a 5xx status.
Retryable(o) ==
    \/ o.kind = "transport"
    \/ o.kind = "status" /\ o.code >= 500 /\ o.code <= 599

\* A 2xx response whose body parsed.
IsJsonSuccess(o) == o.kind = "status" /\ o.body = "json"

\* A status that is neither 2xx nor 5xx, an unreadable body, or a 2xx body
\* that does not parse.
ImmediateFailure(o) == ~Retryable(o) /\ ~IsJsonSuccess(o)

\* The results of the parsed responses among the first k attempts, in order.
RECURSIVE ParsedUpTo(_)
ParsedUpTo(k) ==
    IF k = 0 THEN <<>>
    ELSE IF IsJsonSuccess(http_log[k].outcome)
         THEN ParsedUpTo(k - 1) \o http_log[k].outcome.results
         ELSE ParsedUpTo(k - 1)

\* C3: a chunk is attempted again if and only if the attempt just made ended
\* in a transport failure or a 5xx status and fewer than HTTP_RETRIES + 1
\* attempts have been made for it; no chunk gets more than HTTP_RETRIES + 1
\* attempts; and after any other failure the call has returned an error with
\* that attempt the last one made.
C3_RetryOnlyTransportOr5xx ==
    \A k \in 1..Len(http_log) :
        LET e == http_log[k]
            made == e.attempt + 1
            reattempted ==
                IF k < Len(http_log)
                THEN /\ http_log[k + 1].chunk_index = e.chunk_index
                     /\ http_log[k + 1].attempt = e.attempt + 1
                ELSE /\ batch_pc = "sending"
                     /\ chunk_index = e.chunk_index
                     /\ attempt = e.attempt + 1
        IN /\ reattempted <=> (Retryable(e.outcome) /\ made < HTTP_RETRIES + 1)
           /\ made <= HTTP_RETRIES + 1
           /\ HTTP_RETRIES + 1 = 2
           /\ (k < Len(http_log) /\ ~reattempted) =>
                 /\ IsJsonSuccess(e.outcome)
                 /\ http_log[k + 1].chunk_index = e.chunk_index + 1
                 /\ http_log[k + 1].attempt = 0
           /\ ImmediateFailure(e.outcome) =>
                 /\ k = Len(http_log)
                 /\ batch_pc = "returned"
                 /\ ~batch_ret.ok

\* The second chunk got a 503 twice after the first chunk succeeded, and the
\* call has returned that error.
C3_Witness ==
    /\ batch_pc = "returned"
    /\ batch_ret = Err(ErrStatus(503))
    /\ Len(http_log) = 3
    /\ IsJsonSuccess(http_log[1].outcome)
    /\ http_log[2].chunk_index = 1 /\ http_log[2].attempt = 0
    /\ http_log[2].outcome.kind = "status" /\ http_log[2].outcome.code = 503
    /\ http_log[3].chunk_index = 1 /\ http_log[3].attempt = 1
    /\ http_log[3].outcome.kind = "status" /\ http_log[3].outcome.code = 503

\* C4: when a chunk's first attempt ends in a 5xx status and its retry in a
\* 2xx with a parseable body, the chunk has succeeded: right after the retry
\* no error is pending, the call is not failed, and all_results is what the
\* earlier chunks gave followed by the retry's results, once.
C4_RetryAfter5xxSucceeds ==
    \A k \in 1..(Len(http_log) - 1) :
        LET first == http_log[k]
            retry == http_log[k + 1]
        IN (/\ first.attempt = 0
            /\ first.outcome.kind = "status"
            /\ first.outcome.code >= 500
            /\ retry.chunk_index = first.chunk_index
            /\ IsJsonSuccess(retry.outcome)) =>
               /\ (k + 1 = Len(http_log)) =>
                     /\ last_err = None
                     /\ all_results = ParsedUpTo(k - 1) \o retry.outcome.results
                     /\ batch_pc = "returned" => batch_ret = Ok(all_results)
                     /\ batch_pc = "sending" =>
                           chunk_index = first.chunk_index + 1 /\ attempt = 0
               /\ (k + 1 < Len(http_log)) =>
                     http_log[k + 2].chunk_index = first.chunk_index + 1

\* A one-file call answered 503 and then 200 with one result, returned Ok
\* with exactly that result.
C4_Witness ==
    /\ batch_pc = "returned"
    /\ Len(files) = 1
    /\ Len(http_log) = 2
    /\ http_log[1].outcome = [kind |-> "status", code |-> 503, body |-> "none"]
    /\ IsJsonSuccess(http_log[2].outcome)
    /\ Len(http_log[2].outcome.results) = 1
    /\ batch_ret = Ok(http_log[2].outcome.results)

\* The attempt was the last word on its chunk and it was a failure.
Irrecoverable(e) ==
    \/ ImmediateFailure(e.outcome)
    \/ Retryable(e.outcome) /\ e.attempt + 1 >= HTTP_RETRIES + 1

\* C5: once an attempt fails irrecoverably the call has returned Err, a value
\* with an error and no result list, whatever all_results holds by then; the
\* failing attempt is the last request made, so no later chunk was sent; and
\* after the return no request is made.
C5_NoPartialSuccess ==
    /\ [](\A k \in 1..Len(http_log) :
            Irrecoverable(http_log[k]) =>
                /\ k = Len(http_log)
                /\ batch_pc = "returned"
                /\ DOMAIN batch_ret = {"ok", "err"}
                /\ ~batch_ret.ok
                /\ batch_ret.err \in {ErrStatus(c) : c \in StatusCodes}
                                     \cup {ErrTransport, ErrBody, ErrParse}
                /\ \A j \in 1..Len(http_log) :
                      http_log[j].chunk_index <= http_log[k].chunk_index)
    /\ []((batch_pc = "returned" /\ batch_ret.ok) =>
            \A k \in 1..Len(http_log) : ~Irrecoverable(http_log[k]))
    /\ [][batch_pc = "returned" => (http_log' = http_log /\ batch_ret' = batch_ret)]_vars

\* The second of three chunks failed for good after the first had put its
\* results into all_results.
C5_Witness ==
    /\ batch_pc = "returned"
    /\ ~batch_ret.ok
    /\ NumChunks(files) = 3
    /\ chunk_index = 1
    /\ Len(all_results) >= CHUNK_SIZE

\* C6: when a call on n > 0 files has returned and each request made was a
\* first attempt that succeeded, the number of requests is ceil(n / CHUNK_SIZE)
\* (3 for 2500), request k carried items (k-1)*CHUNK_SIZE+1 .. min(k*CHUNK_SIZE, n)
\* in input order, and the value returned is Ok of the responses' result
\* lists concatenated in chunk order.
C6_ChunkingAndConcatenation ==
    LET n == Len(files)
        c == Len(http_log)
    IN (/\ batch_pc = "returned"
        /\ n > 0
        /\ c > 0
        /\ \A k \in 1..c : /\ http_log[k].attempt = 0
                           /\ IsJsonSuccess(http_log[k].outcome)) =>
           /\ (c - 1) * CHUNK_SIZE < n
           /\ n <= c * CHUNK_SIZE
           /\ CHUNK_SIZE = 1000
           /\ n = 2500 => c = 3
           /\ \A k \in 1..c :
                LET hi == IF k * CHUNK_SIZE < n THEN k * CHUNK_SIZE ELSE n
                    lo == (k - 1) * CHUNK_SIZE + 1
                IN http_log[k].files = [j \in 1..(hi - lo + 1) |-> files[lo + j - 1]]
           /\ batch_ret = Ok(ParsedUpTo(c))

\* 2500 files, three requests, each answered at once, Ok returned.
C6_Witness ==
    /\ batch_pc = "returned"
    /\ batch_ret.ok
    /\ Len(files) = 2500
    /\ Len(http_log) = 3
    /\ \A k \in 1..3 : http_log[k].attempt = 0
    /\ Len(batch_ret.val) = 2500

\* C7: a call with an empty file list returns Ok of the empty list without
\* building an HTTP client and without sending a request.
C7_EmptyInputNoNetwork ==
    (files = <<>> /\ batch_pc # "idle") =>
        /\ batch_pc = "returned"
        /\ batch_ret = Ok(<<>>)
        /\ http_log = <<>>
        /\ client_builds = 0

\* The empty call has returned.
C7_Witness ==
    /\ files = <<>>
    /\ batch_pc = "returned"
    /\ batch_ret.ok

\* ------------------------------------------------------------------------
\* Properties of the realtime watcher
\* ------------------------------------------------------------------------

\* C10: when an iteration of the consumer loop ends with a detection, the
\* realtime_threat_detected event it emitted is the last event emitted and
\* carries the one pair (detected_name, path of the event).
C10_DetectionCarriesName ==
    (rt_pc = "recv" /\ detected_name.some) =>
        /\ Last(emitted).name = "realtime_threat_detected"
        /\ Last(emitted).payload.threats
              = << <<detected_name.val, Last(rt_event.paths)>> >>

\* A history-free description of the event at the head of the queue: it
\* qualifies for a detection attempt if the monitor is enabled, the event has
\* a path, its last path is outside the quarantine root, its kind is create,
\* modify or any, and its path is not suppressed at the current time.
HeadQualifies ==
    /\ rt_pc = "recv"
    /\ rx # <<>>
    /\ REALTIME_ENABLED
    /\ Head(rx).paths # <<>>
    /\ ~starts_with(Last(Head(rx).paths), quarantine_dir)
    /\ Head(rx).kind \in {"Create", "Modify", "Any"}
    /\ ~(/\ Last(Head(rx).paths) \in DOMAIN recent_hits
         /\ clock - recent_hits[Last(Head(rx).paths)] < 2)

\* The file name is one of the two well-known test names as written.
HasTestName(path) == path.name = N_test \/ path.name = N_test_underscore

\* The step takes the event at the head of the queue.
TakesHead == rt_pc = "recv" /\ rx # <<>> /\ rx' = Tail(rx)

IsDetectionFor(e, path) ==
    /\ e.name = "realtime_threat_detected"
    /\ Len(e.payload.threats) = 1
    /\ e.payload.threats[1][2] = path

\* C11: a qualifying event on a file with the test file name always ends in a
\* detection for that path within the same iteration, with no file hashed, no
\* HTTP client built and no request sent, whatever fs and db hold.
C11_TestFileDetectedWithoutHashOrLookup ==
    [][(TakesHead /\ HeadQualifies /\ HasTestName(Last(Head(rx).paths))) =>
          /\ Len(emitted') = Len(emitted) + 2
          /\ IsDetectionFor(Last(emitted'), Last(Head(rx).paths))
          /\ rt_hashed' = rt_hashed
          /\ client_builds' = client_builds
          /\ http_log' = http_log
          /\ batch_pc' = batch_pc
          /\ rt_pc' = "recv"]_vars

\* A detection for the test file whose content cannot even be read, with
\* nothing hashed and no client built.
C11_Witness ==
    /\ emitted # <<>>
    /\ IsDetectionFor(Last(emitted), P_test)
    /\ rt_event.paths = <<P_test>>
    /\ fs[P_test] = NoFile
    /\ rt_hashed = <<>>
    /\ client_builds = 0

\* The event at the head of the queue is detection-relevant: the monitor is
\* enabled, the event has a path outside the quarantine root and its kind is
\* create, modify or any.
HeadRelevant ==
    /\ rt_pc = "recv"
    /\ rx # <<>>
    /\ REALTIME_ENABLED
    /\ Head(rx).paths # <<>>
    /\ ~starts_with(Last(Head(rx).paths), quarantine_dir)
    /\ Head(rx).kind \in {"Create", "Modify", "Any"}

HasAttempt(f) == \E k \in 1..Len(attempts) : attempts[k].file = f

\* The time of the last detection attempt for f.
LastAttemptAt(f) ==
    LET idx == {k \in 1..Len(attempts) : attempts[k].file = f}
        last == CHOOSE k \in idx : \A j \in idx : j <= k
    IN attempts[last].at

\* What a detection attempt does that can be seen: a file is hashed, or (test
\* file) the detection follows the relayed event at once.
AttemptSeen ==
    \/ rt_hashed' # rt_hashed
    \/ Len(emitted') = Len(emitted) + 2

\* C12: a detection-relevant event on a path that had a detection attempt
\* less than 2 s before it is examined makes no attempt (nothing hashed,
\* nothing looked up, no detection, only the relayed event); one examined 2 s
\* or more after the last attempt makes a new attempt.  Attempts are recorded
\* exactly when one is seen, so a suppressed event leaves the time of the last
\* attempt as it was.
C12_Debounce ==
    [][/\ (attempts' # attempts) <=> AttemptSeen
       /\ (TakesHead /\ HeadRelevant /\ HasAttempt(Last(Head(rx).paths))) =>
            IF clock - LastAttemptAt(Last(Head(rx).paths)) < 2
            THEN /\ ~AttemptSeen
                 /\ attempts' = attempts
                 /\ Len(emitted') = Len(emitted) + 1
                 /\ batch_pc' = batch_pc
                 /\ client_builds' = client_builds
            ELSE /\ AttemptSeen
                 /\ attempts' = Append(attempts,
                                  [file |-> Last(Head(rx).paths), at |-> clock])]_vars

RelaysFor(path) ==
    LET rel(e) == e.name = "realtime_file_event" /\ e.payload.file = path
    IN SelectSeq(emitted, rel)

\* Three events on the same file: an attempt at 0, a suppressed event, and
\* the third event, 2 s after the first, in its lookup.
C12_Witness ==
    /\ attempts = <<[file |-> P_doc, at |-> 0], [file |-> P_doc, at |-> 2]>>
    /\ Len(RelaysFor(P_doc)) = 3
    /\ rt_hashed = <<P_doc, P_doc>>
    /\ rt_pc = "lookup"

\* C13: an event taken from the queue while the flag is false leaves no
\* trace (nothing relayed, nothing notified, the suppression map, the hashed
\* files and the lookup state as they were) and is gone from the queue; the
\* queue only ever grows by a new event of the callback, and an event is
\* relayed or detected only in the iteration that took it, so a dropped event
\* is not replayed after the flag is set again.
C13_DisabledDropsEvent ==
    [][/\ (TakesHead /\ ~REALTIME_ENABLED) =>
            /\ emitted' = emitted
            /\ notified' = notified
            /\ recent_hits' = recent_hits
            /\ rt_hashed' = rt_hashed
            /\ attempts' = attempts
            /\ batch_vars' = batch_vars
            /\ rt_pc' = "recv"
            /\ detected_name' = None
       /\ rx' # rx =>
            \/ TakesHead
            \/ /\ produced' = produced + 1
               /\ Len(rx') = Len(rx) + 1
               /\ SubSeq(rx', 1, Len(rx)) = rx
       /\ emitted' # emitted =>
            \/ TakesHead /\ REALTIME_ENABLED
            \/ rt_pc = "lookup" /\ rt_pc' = "recv"]_vars

\* A creation of a readable watched file was taken while the flag was false:
\* nothing was ever emitted, the queue is empty and the flag is true again.
C13_Witness ==
    /\ rt_event = [kind |-> "Create", paths |-> <<P_doc>>]
    /\ produced = 1
    /\ rx = <<>>
    /\ rt_pc = "recv"
    /\ emitted = <<>>
    /\ recent_hits = <<>>
    /\ rt_hashed = <<>>
    /\ REALTIME_ENABLED

\* The event at the head of the queue is examined: the monitor is enabled
\* and the event has a path.
HeadExamined ==
    /\ rt_pc = "recv"
    /\ rx # <<>>
    /\ REALTIME_ENABLED
    /\ Head(rx).paths # <<>>

NoDetectionWork ==
    /\ notified' = notified
    /\ recent_hits' = recent_hits
    /\ rt_hashed' = rt_hashed
    /\ attempts' = attempts
    /\ batch_vars' = batch_vars
    /\ detected_name' = None
    /\ rt_pc' = "recv"

\* C14: a detection attempt is made only for an event of kind create, modify
\* or any whose (last) path is outside the quarantine root.  An examined
\* event of another kind outside the quarantine root is relayed as a
\* realtime_file_event and nothing more; an examined event whose path is
\* under the quarantine root is not relayed and nothing more happens.
C14_OnlyRelevantEventsDetected ==
    [][/\ attempts' # attempts => (TakesHead /\ HeadRelevant)
       /\ (TakesHead /\ HeadExamined) =>
            LET path == Last(Head(rx).paths)
                kind == Head(rx).kind
            IN /\ starts_with(path, quarantine_dir) =>
                    (emitted' = emitted /\ NoDetectionWork)
               /\ (~starts_with(path, quarantine_dir)
                     /\ kind \notin {"Create", "Modify", "Any"}) =>
                    /\ Len(emitted') = Len(emitted) + 1
                    /\ Last(emitted').name = "realtime_file_event"
                    /\ Last(emitted').payload.file = path
                    /\ NoDetectionWork]_vars

\* A remove event on a watched file was relayed, and that is all that
\* happened.
C14_Witness ==
    /\ rt_event = [kind |-> "Remove", paths |-> <<P_doc>>]
    /\ emitted = <<[name |-> "realtime_file_event",
                    payload |-> [file |-> P_doc, event |-> "remove"]]>>
    /\ notified = <<>>
    /\ recent_hits = <<>>
    /\ rt_hashed = <<>>
    /\ client_builds = 0
    /\ rt_pc = "recv"

\* The step ends an iteration whose lookup returned an error.
LookupFailedStep ==
    /\ rt_pc = "lookup"
    /\ batch_pc = "returned"
    /\ ~batch_ret.ok
    /\ rt_pc' = "recv"

\* The step takes a qualifying event whose file cannot be hashed.
UnhashableStep ==
    /\ TakesHead
    /\ HeadQualifies
    /\ ~HasTestName(Last(Head(rx).paths))
    /\ fs[Last(Head(rx).paths)] = NoFile

\* C15: an iteration whose lookup returned an error, or whose file could not
\* be hashed, emits no detection and shows no notification, and leaves the
\* loop at its receive with no lookup in progress; and the loop never gets
\* stuck: at its receive it can take the next queued event, and in a lookup
\* it can make the next attempt or end the iteration.
C15_RealtimeFailsOpen ==
    /\ [][LookupFailedStep =>
            /\ emitted' = emitted
            /\ notified' = notified
            /\ detected_name' = None
            /\ batch_pc' = "idle"
            /\ rx' = rx]_vars
    /\ [][UnhashableStep =>
            /\ Len(emitted') = Len(emitted) + 1
            /\ Last(emitted').name = "realtime_file_event"
            /\ notified' = notified
            /\ detected_name' = None
            /\ rt_pc' = "recv"
            /\ batch_vars' = batch_vars]_vars
    /\ []((rt_pc = "recv" /\ rx # <<>>) => (batch_pc = "idle" /\ ENABLED RtReceive))
    /\ [](rt_pc = "lookup" => ENABLED (RtAttempt \/ RtAfterLookup))

\* The lookup for a file the remote holds as malicious has just failed on a
\* transport error after its retry, with another event waiting in the queue.
C15_Witness ==
    /\ rt_pc = "lookup"
    /\ batch_pc = "returned"
    /\ batch_ret = Err(ErrTransport)
    /\ Len(http_log) = 2
    /\ db[0].verdict = V_malicious
    /\ rt_event.paths = <<P_doc>>
    /\ rx # <<>>

\* ------------------------------------------------------------------------
\* Properties of the quarantine commands
\* ------------------------------------------------------------------------

\* The name of the item a restore or delete loop is about to handle.
NextName ==
    IF q_op = "restore" THEN q_items[q_i + 1].file_name ELSE q_items[q_i + 1]

\* A name that contains a path separator, is "." or "..", or is empty.
MustBeRejected(name) ==
    \/ name = <<>>
    \/ name = <<".">>
    \/ name = <<".", ".">>
    \/ \E k \in 1..Len(name) : name[k] = "/"

\* C16: an iteration of restore or delete whose item's name contains a path
\* separator, is "." or "..", or is empty, ends the command with the
\* invalid-name error and leaves the filesystem as it was; and an iteration
\* that goes on past the validation has a name that is exactly one normal
\* component.
C16_NamesWithSeparatorRejected ==
    [][(q_op \in {"restore", "delete"} /\ q_pc = "loop") =>
          /\ MustBeRejected(NextName) =>
                /\ q_pc' = "returned"
                /\ q_ret' = Err(ErrInvalidName)
                /\ fs' = fs
          /\ ~MustBeRejected(NextName) =>
                ~(q_pc' = "returned" /\ q_ret' = Err(ErrInvalidName))]_vars

\* Some item of the running or returned restore or delete has a name that
\* validation rejects.
HasInvalidItem ==
    /\ q_op \in {"restore", "delete"}
    /\ \E k \in 1..Len(q_items) :
          ~validate_quarantine_name(
              IF q_op = "restore" THEN q_items[k].file_name ELSE q_items[k]).ok

\* C17: a restore or delete whose batch holds an item with an invalid name
\* returns an error, and at no time during or after the call has any file
\* been moved or deleted: the filesystem is as it was when the command was
\* invoked.
C17_InvalidItemAbortsWholeBatch ==
    HasInvalidItem =>
        /\ fs = fs_at_call
        /\ q_pc = "returned" => ~q_ret.ok

\* C18: with quarantine_files and restore_from_quarantine only, the content
\* of every file that existed before the first command is still somewhere
\* in the store: at an original path, in the quarantine root or in a
\* *.stellar_backup sibling (QPaths holds only such paths).
C18_NoFileLost ==
    \A p \in QPaths :
        fs0[p] # NoFile => \E r \in QPaths : fs[r] = fs0[p]

\* The restore loop is about to handle a valid item whose quarantine entry
\* exists and whose original path is occupied.
RestoreOntoOccupant ==
    /\ q_op = "restore"
    /\ q_pc = "loop"
    /\ validate_quarantine_name(NextName).ok
    /\ names_entry(NextName)
    /\ fs[quarantine_join(NextName)] # NoFile
    /\ fs[q_items[q_i + 1].original_path] # NoFile

\* C19: when a restore finds the original path occupied, the occupant ends
\* up in the *.stellar_backup sibling whenever anything was written to the
\* original path (it is never overwritten), and the iteration does not fail
\* when moving the quarantined file in is possible.
C19_OccupantBackedUp ==
    [][RestoreOntoOccupant =>
          LET dest == q_items[q_i + 1].original_path
              backup == with_extension(dest, stellar_backup)
          IN fs'[dest] # fs[dest] => fs'[backup] = fs[dest]]_vars

\* The restore that follows the quarantine of an existing file has returned.
RoundTripDone ==
    /\ q_op = "restore"
    /\ q_pc = "returned"
    /\ q_prev.op = "quarantine"
    /\ Len(q_items) = 1
    /\ fs0[q_items[1].original_path] # NoFile

ValidButAbsent ==
    /\ q_op \in {"restore", "delete"}
    /\ q_pc = "loop"
    /\ ~MustBeRejected(NextName)
    /\ fs[[dirs |-> quarantine_dir, name |-> NextName]] = NoFile

\* C21: such an item is a no-op: the filesystem is unchanged, no directory
\* is created, the command does not return an error because of it, and the
\* loop goes on to the next item (or returns Ok after the last one).
C21_AbsentEntryIsNoOp ==
    [][ValidButAbsent =>
          /\ fs' = fs
          /\ mkdir_calls' = mkdir_calls
          /\ q_i' = q_i + 1
          /\ IF q_i + 1 = Len(q_items)
             THEN q_pc' = "returned" /\ q_ret' = Ok(<<>>)
             ELSE q_pc' = "loop"]_vars

\* A restore of two items, each naming an entry the quarantine root does not
\* hold, went through both of them and returned Ok with nothing changed.
C21_Witness ==
    /\ q_op = "restore"
    /\ q_pc = "returned"
    /\ q_ret.ok
    /\ q_items = <<[file_name |-> QN_file, original_path |-> O1],
                   [file_name |-> QN_file, original_path |-> O2]>>
    /\ q_i = 2
    /\ fs_at_call[Q1] = NoFile
    /\ fs = fs_at_call

\* C22: the quarantine root is flat: every path that exists below the
\* root is a direct child of it.
C22_QuarantineRootIsFlat ==
    \A p \in DOMAIN fs :
        (fs[p] # NoFile /\ starts_with(p, <<"data", "StellarAntivirus", "Quarantine">>))
            => Len(p.dirs) = 3

\* A file collect_paths is to accept: a regular file of a root it was asked
\* to walk, no deeper than max_depth, whose metadata can be read and whose
\* size is within the ceiling.
Acceptable(root, i) ==
    /\ root = "documents" => args.include_documents
    /\ root = "desktop" => args.include_desktop
    /\ tree[root][i].is_file
    /\ tree[root][i].depth <= args.max_depth
    /\ tree[root][i].meta_ok
    /\ tree[root][i].len <= 2

\* The acceptable files of a root, in walk order.
AcceptableOf(root) ==
    LET all == [i \in 1..Len(tree[root]) |-> [root |-> root, i |-> i]]
        ok(p) == Acceptable(p.root, p.i)
    IN SelectSeq(all, ok)

AcceptableInOrder ==
    AcceptableOf("downloads") \o AcceptableOf("documents") \o AcceptableOf("desktop")

\* C23: collect_paths never holds more than max_files paths, and what it
\* returns is the first max_files acceptable files (all of them if there are
\* fewer), downloads before documents before desktop, each root in walk
\* order: files over the ceiling, unreadable or too deep take no place and do
\* not end the walk.
C23_CollectTakesTheFirstAcceptable ==
    /\ walk.pc # "off" => Len(paths_to_scan) <= args.max_files
    /\ walk.pc = "returned" =>
          LET n == IF Len(AcceptableInOrder) < args.max_files
                   THEN Len(AcceptableInOrder) ELSE args.max_files
          IN paths_to_scan = SubSeq(AcceptableInOrder, 1, n)

\* The cap was reached in documents, after a downloads file over the
\* ceiling or unreadable was passed over, and an acceptable desktop file was
\* left uncollected.
C23_Witness ==
    /\ walk.pc = "returned"
    /\ args.max_files = 1
    /\ Len(paths_to_scan) = 1
    /\ paths_to_scan[1].root = "documents"
    /\ \E i \in 1..Len(tree["downloads"]) :
          /\ tree["downloads"][i].is_file
          /\ ~tree["downloads"][i].meta_ok \/ tree["downloads"][i].len > 2
    /\ AcceptableOf("desktop") # <<>>

\* The positions of emitted that hold an event of the given name.
PositionsOf(name) == {j \in 1..Len(emitted) : emitted[j].name = name}

\* The lookup of the scan has been started.
LookupStarted == scan_pc \in {"lookup", "returned"} /\ batch_pc # "idle"

\* C24: the progress events of a scan over total > 0 paths are the first
\* events it emits; the i-th carries the i-th collected path, current = i and
\* the total, whether or not that path could be hashed; all total of them
\* are out when the lookup is started, when an HTTP request is made, when
\* scan_finished is emitted and when the scan returns, and none follows
\* scan_finished.
C24_ProgressEvents ==
    LET total == Len(paths_to_scan)
        progress == PositionsOf("scan_progress")
    IN (scan_pc # "off" /\ total > 0) =>
          /\ \E n \in 0..total : progress = 1..n
          /\ \A i \in progress :
                emitted[i].payload =
                    [file |-> paths_to_scan[i], current |-> i, total |-> total]
          /\ (LookupStarted \/ http_log # <<>> \/ PositionsOf("scan_finished") # {}
                \/ scan_pc = "returned")
                => progress = 1..total
          /\ \A f \in PositionsOf("scan_finished") : \A i \in progress : i < f

\* A scan over two paths, the first unreadable, that made its lookup and
\* returned: two progress events, then scan_finished.
C24_Witness ==
    /\ scan_pc = "returned"
    /\ Len(paths_to_scan) = 2
    /\ fs[paths_to_scan[1]] = -1
    /\ http_log # <<>>
    /\ PositionsOf("scan_progress") = {1, 2}
    /\ PositionsOf("scan_finished") = {3}

\* The collected paths that can be read, in collection order.
ReadablePaths ==
    LET readable(path) == fs[path] # -1 IN SelectSeq(paths_to_scan, readable)

\* C25: the request of a scan's lookup holds one entry per readable collected
\* path, in collection order, carrying that file's fingerprint, and nothing
\* for an unreadable path; the lookup is entered once, on leaving the hashing
\* loop, and its request never changes afterwards; and a scan none of whose
\* paths could be hashed builds no client, makes no HTTP request and returns
\* Ok after a scan_finished with an empty threats list.
C25_LookupRequest ==
    /\ [](LookupStarted =>
            /\ Len(files) = Len(ReadablePaths)
            /\ \A k \in 1..Len(files) : files[k].sha256 = HashOf(fs[ReadablePaths[k]]))
    /\ [][/\ (batch_pc = "idle" /\ batch_pc' # "idle")
                => (scan_pc = "hashing" /\ scan_pc' = "lookup")
          /\ batch_pc # "idle" => (batch_pc' # "idle" /\ files' = files)]_vars
    /\ [](ReadablePaths = <<>> =>
            /\ http_log = <<>>
            /\ client_builds = 0
            /\ scan_pc = "returned" =>
                  /\ scan_ret = Ok(<<>>)
                  /\ FinishedEvents =
                        <<[name |-> "scan_finished", payload |-> [threats |-> <<>>]]>>)

\* A scan over an unreadable and a readable path whose lookup was sent with
\* the one entry of the readable path.
C25_Witness ==
    /\ scan_pc = "returned"
    /\ Len(paths_to_scan) = 2
    /\ fs[paths_to_scan[1]] = -1
    /\ fs[paths_to_scan[2]] = 1
    /\ Len(http_log) = 1
    /\ Len(http_log[1].files) = 1
    /\ http_log[1].files[1].sha256 = HashOf(1)

\* Some result of the lookup with a verdict other than clean/unknown carries
\* the fingerprint h, whatever the case of either.
PositiveFor(h) ==
    \E i \in 1..Len(batch_ret.val) :
        /\ ~IsCleanOrUnknown(batch_ret.val[i].verdict)
        /\ to_lowercase(batch_ret.val[i].sha256) = to_lowercase(h)

\* Every reported pair names a path hashed in this scan whose fingerprint has
\* a positive result.
CorrelationSound ==
    \A t \in 1..Len(ReportedThreats) :
        \E k \in 1..Len(index_to_path) :
            /\ index_to_path[k].path = ReportedThreats[t][2]
            /\ PositiveFor(index_to_path[k].hash)

\* Every hashed path whose fingerprint has a positive result is reported.
CorrelationComplete ==
    \A k \in 1..Len(index_to_path) :
        PositiveFor(index_to_path[k].hash) =>
            \E t \in 1..Len(ReportedThreats) :
                ReportedThreats[t][2] = index_to_path[k].path

\* C26: in a successful scan the threats list is sound and complete with
\* respect to the positive results, also when several scanned files share a
\* fingerprint.
C26_CorrelationSoundAndComplete ==
    (ScanReturnedAfterLookup /\ batch_ret.ok) =>
        (CorrelationSound /\ CorrelationComplete)

\* The recency map as it would be had it never been swept: a file's entry
\* is the time of its last detection attempt, or its entry in the map the
\* watcher started from.
InUnswept(f) == HasAttempt(f) \/ f \in DOMAIN FullMap
UnsweptAt(f) == IF HasAttempt(f) THEN LastAttemptAt(f) ELSE FullMap[f]

\* C27: the sweep does not change any suppress/attempt decision: an event
\* is suppressed exactly when the never-swept map would suppress it; and an
\* insert is followed by a sweep only when it leaves more than 256 entries,
\* the sweep keeping exactly the entries no older than 2 s, the new one
\* among them.
C27_SweepInvisible ==
    [][(TakesHead /\ HeadRelevant) =>
         LET f == Last(Head(rx).paths)
             ins == [g \in (DOMAIN recent_hits) \cup {f} |->
                        IF g = f THEN clock ELSE recent_hits[g]]
         IN /\ (attempts' = attempts) <=> (InUnswept(f) /\ clock - UnsweptAt(f) < 2)
            /\ attempts' = attempts => recent_hits' = recent_hits
            /\ attempts' # attempts =>
                 /\ f \in DOMAIN recent_hits'
                 /\ IF Cardinality(DOMAIN ins) > 256
                    THEN /\ DOMAIN recent_hits' = {g \in DOMAIN ins : ins[g] >= clock - 2}
                         /\ \A g \in DOMAIN recent_hits' : recent_hits'[g] = ins[g]
                    ELSE recent_hits' = ins]_vars

\* The insert of a 257th file swept the entries older than 2 s; after it an
\* event on a swept file made an attempt and an event on a file whose entry
\* was kept was suppressed.
C27_Witness ==
    /\ attempts = <<[file |-> P_test, at |-> 0], [file |-> Filler(1), at |-> 1]>>
    /\ Len(RelaysFor(Filler(256))) = 1
    /\ Filler(2) \notin DOMAIN recent_hits
    /\ Filler(255) \in DOMAIN recent_hits
    /\ Cardinality(DOMAIN recent_hits) < 256
    /\ rx = <<>>

\* The queue is as it was, or has one more event at its end.
QueueKeptOrAppended ==
    \/ rx' = rx
    \/ Len(rx') = Len(rx) + 1 /\ SubSeq(rx', 1, Len(rx)) = rx

\* The lookup of the event being handled came back with a positive verdict.
LookupPositive ==
    /\ rt_pc = "lookup"
    /\ batch_pc = "returned"
    /\ batch_ret.ok
    /\ batch_ret.val # <<>>
    /\ to_lowercase(Head(batch_ret.val).verdict) \notin {V_clean, V_unknown}

\* C28: events are handled one at a time in queue order by the loop alone.
\* The queue loses only its head, and only while no event is being handled;
\* the event being handled is the head that was taken; while its lookup is in
\* progress nothing is dequeued, the map is untouched and the only thing
\* emitted is that event's detection; the map changes only in the step that
\* takes an event; a change of the flag changes nothing else; and the flag is
\* not read again after the dequeue: a positive lookup ends in a detection
\* whatever the flag is by then.
C28_SingleConsumerInOrder ==
    [][/\ rx' # rx => (TakesHead \/ QueueKeptOrAppended)
       /\ TakesHead => rt_event' = Head(rx)
       /\ rt_event' # rt_event => TakesHead
       /\ recent_hits' # recent_hits => TakesHead
       /\ rt_pc = "lookup" =>
            /\ rt_event' = rt_event
            /\ QueueKeptOrAppended
            /\ emitted' # emitted =>
                  /\ rt_pc' = "recv"
                  /\ Len(emitted') = Len(emitted) + 1
                  /\ IsDetectionFor(Last(emitted'), Last(rt_event.paths))
       /\ REALTIME_ENABLED' # REALTIME_ENABLED =>
            /\ rx' = rx
            /\ rt_pc' = rt_pc
            /\ rt_event' = rt_event
            /\ recent_hits' = recent_hits
            /\ emitted' = emitted
            /\ batch_vars' = batch_vars
       /\ (LookupPositive /\ rt_pc' = "recv") =>
            /\ Len(emitted') = Len(emitted) + 1
            /\ IsDetectionFor(Last(emitted'), Last(rt_event.paths))]_vars

\* The lookup of the event being handled has returned a positive verdict
\* while the next event waits in the queue and the flag has been cleared
\* since the dequeue.
C28_Witness ==
    /\ LookupPositive
    /\ ~REALTIME_ENABLED
    /\ rx # <<>>
    /\ produced = 2

====
